---- MODULE Spec2Model ----
(***************************************************************************)
(* Secret Santa bot: the assignment engine (services/draw_service.py), the *)
(* game lifecycle handlers (src/handlers/*.py) and the storage they commit *)
(* to (src/database/*.py), as a state machine.                             *)
(*                                                                         *)
(* A Python dict is a sequence of <<key, value>> pairs with pairwise       *)
(* distinct keys, in insertion order.  A table is a bag of rows: the       *)
(* autoincrement id of a row is not observable, so two rows with the same  *)
(* columns are two copies of one bag element.  A game row is keyed by its  *)
(* game_code, which stands for games.id as well: both are unique keys of   *)
(* the same row and neither changes during the row's life.                 *)
(***************************************************************************)
EXTENDS Integers, Sequences, FiniteSets, Bags, TLC

\* ------------------------------------------------------------------ bounds

\* Number of participant names the handlers are called with.
MaxNames == 4

\* Longest participant list handed to the draw service on its own.
MaxLen == 4

\* Most pairs of a mapping handed to verify_draw_properties on its own.
MaxPairs == 3

\* The last day datetime.utcnow() reaches.
MaxDays == 60

\* The last hour datetime.now() reaches when the process is followed by the
\* hour.
MaxHours == 72

\* ------------------------------------------------------- program constants

MIN_PARTICIPANTS == 3

AUTO_PURGE_DAYS == 30

\* timedelta(days=1), in the hours the wall clock of the model counts.
HOURS_PER_DAY == 24

\* asyncio.sleep(3600) of the except branch of auto_purge_task, in hours.
BACKOFF_HOURS == 1

\* --------------------------------------------------------------- universes

\* Names in the order that ORDER BY giver_name / sorted(key=giver_name) gives.
NamePool == <<"Ann", "Bo", "Cid", "Dee", "Eve", "Fay">>

Names == {NamePool[i] : i \in 1..MaxNames}

DrawNames == {NamePool[i] : i \in 1..MaxLen}

\* The game codes _generate_code can return.
AllCodes == {"SANTA42", "NOEL24"}

\* The game code the requests of the interactive lifecycle name.
Codes == {"SANTA42"}

Users == {1001, 1002}

None == "None"

\* ------------------------------------------------------------ Python dicts

DictKeys(d) == {d[i][1] : i \in DOMAIN d}

DictValues(d) == {d[i][2] : i \in DOMAIN d}

DictGet(d, k) ==
    IF k \in DictKeys(d)
    THEN d[CHOOSE i \in DOMAIN d : d[i][1] = k][2]
    ELSE None

\* result[k] = v: a new key is appended, an old key keeps its position.
DictSet(d, k, v) ==
    IF k \in DictKeys(d)
    THEN [i \in DOMAIN d |-> IF d[i][1] = k THEN <<k, v>> ELSE d[i]]
    ELSE Append(d, <<k, v>>)

\* set(xs) of a list.
ListSet(xs) == {xs[i] : i \in DOMAIN xs}

\* The orderings random.shuffle may leave a list of length n in.
Shuffles(n) == Permutations(1..n)

\* ------------------------------------------- services/draw_service.py

RECURSIVE CyclicLoop(_, _, _)
CyclicLoop(participants, i, result) ==
    LET n == Len(participants) IN
    IF i >= n THEN result
    ELSE CyclicLoop(participants, i + 1,
                    DictSet(result, participants[i + 1],
                            participants[((i + 1) % n) + 1]))

\* A plausible slip: the receiver is taken two places on instead of one.
CreateCyclicAssignmentSkip(participants) ==
    LET n == Len(participants) IN
    [i \in 1..n |-> <<participants[i], participants[((i + 1) % n) + 1]>>]

\* A plausible slip: each name gives to the one before it in the list.
CreateCyclicAssignmentPredecessor(participants) ==
    LET n == Len(participants) IN
    [i \in 1..n |-> <<participants[i], participants[((i + n - 2) % n) + 1]>>]

\* DrawService._create_cyclic_assignment: list index i (0-based) is i + 1 here.
CreateCyclicAssignment(participants) ==
    CyclicLoop(participants, 0, <<>>)

\* DrawService._validate_draw: TRUE when it returns, FALSE when it raises DrawError.
ValidateDraw(draw_result, original_participants) ==
    LET participants_set == ListSet(original_participants) IN
    /\ Len(draw_result) = Len(original_participants)
    /\ \A i \in DOMAIN draw_result : draw_result[i][1] # draw_result[i][2]
    /\ DictKeys(draw_result) = participants_set
    /\ DictValues(draw_result) = participants_set

\* The while loop of verify_draw_properties: <<current, visited>> when it ends.
RECURSIVE CycleWalk(_, _, _)
CycleWalk(draw_result, current, visited) ==
    IF current \in visited THEN <<current, visited>>
    ELSE LET next == DictGet(draw_result, current) IN
         IF next = None THEN <<None, visited \cup {current}>>
         ELSE CycleWalk(draw_result, next, visited \cup {current})

\* A plausible slip: a walk that is back at its start counts as a cycle,
\* however many givers it passed.
VerifyDrawPropertiesNoCount(draw_result) ==
    [no_self_assignment |->
         \A i \in DOMAIN draw_result : draw_result[i][1] # draw_result[i][2],
     is_permutation |-> DictKeys(draw_result) = DictValues(draw_result),
     is_cyclic |->
         IF draw_result = <<>> THEN TRUE
         ELSE LET start == draw_result[1][1]
                  walk == CycleWalk(draw_result, start, {})
              IN  walk[1] = start]

\* A plausible slip: the loop over the items stops after the first item.
VerifyDrawPropertiesFirstItem(draw_result) ==
    [no_self_assignment |->
         draw_result = <<>> \/ draw_result[1][1] # draw_result[1][2],
     is_permutation |-> DictKeys(draw_result) = DictValues(draw_result),
     is_cyclic |->
         IF draw_result = <<>> THEN TRUE
         ELSE LET start == draw_result[1][1]
                  walk == CycleWalk(draw_result, start, {})
              IN  walk[1] = start /\ Cardinality(walk[2]) = Len(draw_result)]

\* DrawService.verify_draw_properties
VerifyDrawProperties(draw_result) ==
    [no_self_assignment |->
         \A i \in DOMAIN draw_result : draw_result[i][1] # draw_result[i][2],
     is_permutation |-> DictKeys(draw_result) = DictValues(draw_result),
     is_cyclic |->
         IF draw_result = <<>> THEN TRUE
         ELSE LET start == draw_result[1][1]
                  walk == CycleWalk(draw_result, start, {})
              IN  walk[1] = start /\ Cardinality(walk[2]) = Len(draw_result)]

\* A plausible slip: only the empty list is refused as too short.
PerformDrawNoMinimum(participants, shuffle) ==
    IF participants = <<>> THEN [status |-> "insufficient", result |-> <<>>]
    ELSE IF Len(participants) # Cardinality(ListSet(participants))
    THEN [status |-> "draw_error", result |-> <<>>]
    ELSE LET shuffled == [i \in DOMAIN participants |-> participants[shuffle[i]]]
             draw_result == CreateCyclicAssignment(shuffled)
         IN  IF ValidateDraw(draw_result, participants)
             THEN [status |-> "ok", result |-> draw_result]
             ELSE [status |-> "draw_error", result |-> <<>>]

\* A plausible slip: a repeated name raises InsufficientParticipantError.
PerformDrawDuplicateAsInsufficient(participants, shuffle) ==
    IF participants = <<>> THEN [status |-> "insufficient", result |-> <<>>]
    ELSE IF Len(participants) < MIN_PARTICIPANTS
    THEN [status |-> "insufficient", result |-> <<>>]
    ELSE IF Len(participants) # Cardinality(ListSet(participants))
    THEN [status |-> "insufficient", result |-> <<>>]
    ELSE LET shuffled == [i \in DOMAIN participants |-> participants[shuffle[i]]]
             draw_result == CreateCyclicAssignment(shuffled)
         IN  IF ValidateDraw(draw_result, participants)
             THEN [status |-> "ok", result |-> draw_result]
             ELSE [status |-> "draw_error", result |-> <<>>]

\* DrawService.perform_draw with the outcome of random.shuffle as `shuffle`, a
\* permutation of the list's positions.  status is "ok" (the dict is returned),
\* "insufficient" (InsufficientParticipantError) or "draw_error" (DrawError).
PerformDraw(participants, shuffle) ==
    IF participants = <<>> THEN [status |-> "insufficient", result |-> <<>>]
    ELSE IF Len(participants) < MIN_PARTICIPANTS
    THEN [status |-> "insufficient", result |-> <<>>]
    ELSE IF Len(participants) # Cardinality(ListSet(participants))
    THEN [status |-> "draw_error", result |-> <<>>]
    ELSE LET shuffled == [i \in DOMAIN participants |-> participants[shuffle[i]]]
             draw_result == CreateCyclicAssignment(shuffled)
         IN  IF ValidateDraw(draw_result, participants)
             THEN [status |-> "ok", result |-> draw_result]
             ELSE [status |-> "draw_error", result |-> <<>>]

\* ------------------------------------------------------------------- state

VARIABLES
    db,           \* the committed tables: games, participants, draw_results
    now,          \* datetime.utcnow(), in days
    reply,        \* the last request handled and the answer sent for it
    export_kb,    \* the export keyboard last sent: <<game_code, user>>, or <<>>
    draw_input,   \* draw service on its own: the list handed to perform_draw
    draw_output,  \* draw service on its own: what perform_draw gave back
    sweep,        \* auto_purge_expired_games between its SELECT and its DELETEs
    task,         \* where the loop of auto_purge_task is
    checks,       \* draw service on its own: what verify_draw_properties found
    sched,        \* the process by its wall clock: on_startup, the task's sleep
    requests,     \* the requests between their reads and their commit
    router        \* the dispatcher: handler last triggered, FSM storage

vars ==
    <<db, now, reply, export_kb, draw_input, draw_output, sweep, task, checks,
      sched, requests, router>>

NoOutput == [status |-> "none", result |-> <<>>]

\* verify_draw_properties has not run: its dict `checks` as it starts out.
NoChecks ==
    [ran |-> FALSE,
     value |-> [no_self_assignment |-> TRUE, is_permutation |-> TRUE,
                is_cyclic |-> TRUE]]

\* No update has been dispatched: MemoryStorage holds no state and no data.
NoRouter ==
    [handled_by |-> "None", user |-> 0,
     text |-> [head |-> "None", code |-> "None", name |-> "None"],
     fsm |-> [u \in Users |->
                 [state |-> "None", command_type |-> "None",
                  last_game_code |-> "None"]],
     kb |-> <<>>]

Reply(op, code, user, name, outcome, count, pairs) ==
    [op |-> op, code |-> code, user |-> user, name |-> name,
     outcome |-> outcome, count |-> count, pairs |-> pairs]

\* ---------------------------------------------- src/database/models.py

\* auto_purge_at IS NULL (the column is nullable).
NoDate == -1

\* A row of table games (Game); is_locked and is_drawn default to False.
Game(creator_chat_id, auto_purge_at) ==
    [creator_chat_id |-> creator_chat_id,
     is_locked |-> FALSE,
     is_drawn |-> FALSE,
     auto_purge_at |-> auto_purge_at]

\* The three tables with no rows (create_tables).
EmptyDb ==
    [games |-> <<>>,
     participants |-> [c \in AllCodes |-> EmptyBag],
     draw_results |-> [c \in AllCodes |-> EmptyBag]]

\* The updates Telegram delivers at the same time, each handled as a task of
\* its own.
Requests == {"first", "second"}

\* A request that is not between its first step and its commit.
NoRequest ==
    [pc |-> "idle", op |-> "None", game_code |-> "None", user_id |-> 0,
     name |-> "None", participants |-> <<>>, session |-> EmptyDb]

NoRequests == [r \in Requests |-> NoRequest]

\* UniqueConstraint("game_id", "name"): would the flush of one more row
\* (game_id, name) raise IntegrityError?
UniqueViolation(s, game_id, name) == BagIn(name, s.participants[game_id])

\* ------------------------------------------ src/database/repository.py

\* GameRepository.get_game_by_code: is there a row, and the row.
GameExists(s, game_code) == game_code \in DOMAIN s.games

GetGameByCode(s, game_code) == s.games[game_code]

\* GameRepository.create_game
CreateGame(s, game_code, creator_chat_id, auto_purge_at) ==
    [s EXCEPT !.games =
        [c \in DOMAIN s.games \cup {game_code} |->
            IF c = game_code THEN Game(creator_chat_id, auto_purge_at)
            ELSE s.games[c]]]

\* GameRepository.add_participant (the INSERT; the flush may raise, see
\* UniqueViolation).
AddParticipant(s, game_id, name) ==
    [s EXCEPT !.participants[game_id] = @ (+) SetToBag({name})]

\* The names of a bag as a list, in NamePool order from place i on, each as
\* often as it occurs.
RECURSIVE NamesToList(_, _)
NamesToList(bag, i) ==
    IF i > Len(NamePool) THEN <<>>
    ELSE [k \in 1..CopiesIn(NamePool[i], bag) |-> NamePool[i]]
             \o NamesToList(bag, i + 1)

\* GameRepository.get_participants, as the list of names.  joined_at is not a
\* column of the model: the order of the list decides only the order of the
\* lines of a reply and the list random.shuffle starts from.
GetParticipants(s, game_id) ==
    NamesToList(s.participants[game_id], 1)

\* A plausible slip: the WHERE clause leaves out game_id.
ParticipantExistsAnyGame(s, game_id, name) ==
    \E c \in AllCodes : BagIn(name, s.participants[c])

\* GameRepository.participant_exists
ParticipantExists(s, game_id, name) == BagIn(name, s.participants[game_id])

\* GameRepository.lock_game: UPDATE ... WHERE id = game_id
LockGame(s, game_id) ==
    IF game_id \in DOMAIN s.games
    THEN [s EXCEPT !.games[game_id].is_locked = TRUE]
    ELSE s

\* GameRepository.mark_game_as_drawn: UPDATE ... WHERE id = game_id
MarkGameAsDrawn(s, game_id) ==
    IF game_id \in DOMAIN s.games
    THEN [s EXCEPT !.games[game_id].is_drawn = TRUE]
    ELSE s

\* The rows save_draw_results adds for the first k items of the dict.
RECURSIVE AddDrawResults(_, _, _, _)
AddDrawResults(s, game_id, results, k) ==
    IF k = 0 THEN s
    ELSE [AddDrawResults(s, game_id, results, k - 1)
             EXCEPT !.draw_results[game_id] = @ (+) SetToBag({results[k]})]

\* GameRepository.save_draw_results
SaveDrawResults(s, game_id, results) ==
    MarkGameAsDrawn(AddDrawResults(s, game_id, results, Len(results)), game_id)

\* The rows of a bag as a list, by giver_name and, for one giver, by
\* receiver_name, from giver place i and receiver place j on.
RECURSIVE RowsToList(_, _, _)
RowsToList(bag, i, j) ==
    IF i > Len(NamePool) THEN <<>>
    ELSE IF j > Len(NamePool) THEN RowsToList(bag, i + 1, 1)
    ELSE LET row == <<NamePool[i], NamePool[j]>> IN
         [k \in 1..CopiesIn(row, bag) |-> row] \o RowsToList(bag, i, j + 1)

\* GameRepository.get_draw_results: ORDER BY giver_name
GetDrawResults(s, game_id) ==
    RowsToList(s.draw_results[game_id], 1, 1)

\* A delete that removes no row.
DeleteDrawResultsKept(s, game_id) == s

\* DELETE FROM draw_results WHERE game_id = ...
DeleteDrawResults(s, game_id) ==
    [s EXCEPT !.draw_results[game_id] = EmptyBag]

\* A delete that leaves the participants of the game.
DeleteParticipantsKept(s, game_id) == s

\* DELETE FROM participants WHERE game_id = ...
DeleteParticipants(s, game_id) ==
    [s EXCEPT !.participants[game_id] = EmptyBag]

DeleteGameRow(s, game_id) ==
    [s EXCEPT !.games = [c \in DOMAIN s.games \ {game_id} |-> s.games[c]]]

\* GameRepository.delete_game: the session after it, and `deleted`.
DeleteGame(s, game_id) ==
    DeleteGameRow(DeleteDrawResults(DeleteParticipants(s, game_id), game_id),
                  game_id)

DeleteGameDeleted(s, game_id) == game_id \in DOMAIN s.games

\* GameRepository.get_game_stats
GetGameStats(s, game_id) ==
    [participant_count |-> Len(GetParticipants(s, game_id)),
     draw_count |-> Len(GetDrawResults(s, game_id))]

\* -------------------------------------------- src/database/database.py

\* A session that skips the rollback: what it held when the exception came
\* is committed.
GetSessionNoRollback(before, session, raised) == session

\* get_session: the tables after the `async with` block.  `session` is what the
\* session held when the block ended, `raised` whether it ended by an exception
\* (rollback) or normally (commit).
GetSession(before, session, raised) ==
    IF raised THEN before ELSE session

\* ------------------------------------------------ utils/code_generator.py

MAX_GENERATION_ATTEMPTS == 100

\* The codes _generate_code returns on the attempts of one call: `first` on
\* the first attempt, `second` on every later one.
PickRun(first, second) ==
    [a \in 1..MAX_GENERATION_ATTEMPTS |-> IF a = 1 THEN first ELSE second]

\* A generator that returns its pick without looking it up.
GenerateGameCodeNoLookup(s, picks, attempt) == picks[attempt]

\* A plausible slip: after the last attempt its code is returned, not
\* RuntimeError raised.
RECURSIVE GenerateGameCodeReturnsLast(_, _, _)
GenerateGameCodeReturnsLast(s, picks, attempt) ==
    IF attempt > MAX_GENERATION_ATTEMPTS THEN picks[MAX_GENERATION_ATTEMPTS]
    ELSE IF ~GameExists(s, picks[attempt]) THEN picks[attempt]
    ELSE GenerateGameCodeReturnsLast(s, picks, attempt + 1)

\* generate_game_code from attempt `attempt` on: the code, or None when it
\* raises RuntimeError.
RECURSIVE GenerateGameCode(_, _, _)
GenerateGameCode(s, picks, attempt) ==
    IF attempt > MAX_GENERATION_ATTEMPTS THEN None
    ELSE IF ~GameExists(s, picks[attempt]) THEN picks[attempt]
    ELSE GenerateGameCode(s, picks, attempt + 1)

\* generate_game_code from attempt `attempt` on: the number of the attempt it
\* returns or raises after, each attempt one _generate_code and one
\* get_game_by_code.
RECURSIVE GenerateAttempts(_, _, _)
GenerateAttempts(s, picks, attempt) ==
    IF attempt > MAX_GENERATION_ATTEMPTS THEN attempt - 1
    ELSE IF ~GameExists(s, picks[attempt]) THEN attempt
    ELSE GenerateAttempts(s, picks, attempt + 1)

\* ---------------------------------------------------------------- handlers
\* The body of a handler's `async with get_session()` block, run on the
\* session s: the outcome it answers with, what the session holds when the
\* block ends (session), whether it ends by an exception (raised), and what
\* the block itself has committed by then (committed).  `fault` is where the
\* environment fails the handler: "flush" and "update" are the storage raising
\* on an INSERT or an UPDATE/DELETE, "reply" is Telegram raising on the answer
\* that reports success.

Run(outcome, committed, session, raised, count) ==
    [outcome |-> outcome, committed |-> committed, session |-> session,
     raised |-> raised, count |-> count]

Answered(s, outcome, count) == Run(outcome, s, s, FALSE, count)

\* An exception after which the session is committed as it stands.
RaisedCommitted(s, session) == Run("error", session, session, FALSE, 0)

Raised(s, session) == Run("error", s, session, TRUE, 0)

\* A cmd_new that sets no expiration.
NewRunNoExpiry(s, user_id, game_code, utcnow, fault) ==
    IF game_code = None THEN Raised(s, s)
    ELSE LET s1 == CreateGame(s, game_code, user_id, NoDate) IN
         IF fault = "flush" THEN Raised(s, s)
         ELSE IF fault = "reply" THEN Raised(s, s1)
         ELSE Answered(s1, "ok", 0)

\* src/handlers/game_creation.py cmd_new
NewRun(s, user_id, game_code, utcnow, fault) ==
    IF game_code = None THEN Raised(s, s)
    ELSE LET auto_purge_at == utcnow + AUTO_PURGE_DAYS
             s1 == CreateGame(s, game_code, user_id, auto_purge_at)
         IN  IF fault = "flush" THEN Raised(s, s)
             ELSE IF fault = "reply" THEN Raised(s, s1)
             ELSE Answered(s1, "ok", 0)

\* A join that does not look at is_locked.
JoinCheckNoLocked(game, present) ==
    IF present THEN "duplicate_name" ELSE "ok"

\* src/handlers/game_join.py cmd_join: the checks between the lookup of the
\* game and add_participant; `present` is what participant_exists returned.
JoinCheck(game, present) ==
    IF game.is_locked THEN "game_locked"
    ELSE IF present THEN "duplicate_name"
    ELSE "ok"

\* src/handlers/game_join.py cmd_join
JoinRun(s, game_code, user_id, participant_name, fault) ==
    IF ~GameExists(s, game_code) THEN Answered(s, "not_found", 0)
    ELSE IF /\ ~GetGameByCode(s, game_code).is_locked
            /\ CopiesIn(participant_name, s.participants[game_code]) > 1
    THEN Raised(s, s)   \* scalar_one_or_none: MultipleResultsFound
    ELSE LET check == JoinCheck(GetGameByCode(s, game_code),
                                ParticipantExists(s, game_code, participant_name))
         IN
    IF check # "ok" THEN Answered(s, check, 0)
    ELSE IF fault = "flush" \/ UniqueViolation(s, game_code, participant_name)
    THEN Raised(s, s)
    ELSE LET s1 == AddParticipant(s, game_code, participant_name)
             participant_count == Len(GetParticipants(s1, game_code))
         IN  IF fault = "reply" THEN Raised(s, s1)
             ELSE Answered(s1, "ok", participant_count)

\* src/handlers/game_join.py cmd_join from participant_exists on, in a
\* request that found the game open before: the name is looked up and added
\* to the tables as they are now; is_locked is not read again.  A game row
\* that is gone fails the foreign key.
JoinCommitRun(s, game_code, participant_name, fault) ==
    IF ~GameExists(s, game_code) THEN Raised(s, s)
    ELSE IF CopiesIn(participant_name, s.participants[game_code]) > 1
    THEN Raised(s, s)
    ELSE IF ParticipantExists(s, game_code, participant_name)
    THEN Answered(s, "duplicate_name", 0)
    ELSE IF fault = "flush" \/ UniqueViolation(s, game_code, participant_name)
    THEN Raised(s, s)
    ELSE LET s1 == AddParticipant(s, game_code, participant_name)
             participant_count == Len(GetParticipants(s1, game_code))
         IN  IF fault = "reply" THEN Raised(s, s1)
             ELSE Answered(s1, "ok", participant_count)

\* A lock that does not count the participants.
LockCheckNoMinimum(game, user_id, participant_count) ==
    IF game.creator_chat_id # user_id THEN "permission_denied"
    ELSE IF game.is_locked THEN "already_locked"
    ELSE "ok"

\* src/handlers/game_lock.py cmd_lock: the checks between the lookup of the
\* game and lock_game.
LockCheck(game, user_id, participant_count) ==
    IF game.creator_chat_id # user_id THEN "permission_denied"
    ELSE IF game.is_locked THEN "already_locked"
    ELSE IF participant_count < MIN_PARTICIPANTS THEN "insufficient"
    ELSE "ok"

\* src/handlers/game_lock.py cmd_lock
LockRun(s, game_code, user_id, fault) ==
    IF ~GameExists(s, game_code) THEN Answered(s, "not_found", 0)
    ELSE LET participant_count == Len(GetParticipants(s, game_code))
             check == LockCheck(GetGameByCode(s, game_code), user_id,
                                participant_count)
         IN
    IF check = "insufficient" THEN Answered(s, check, participant_count)
    ELSE IF check # "ok" THEN Answered(s, check, 0)
    ELSE IF fault = "update" THEN Raised(s, s)
    ELSE LET s1 == LockGame(s, game_code) IN
         IF fault = "reply" THEN Raised(s, s1)
         ELSE Answered(s1, "ok", participant_count)

\* An unlock that does not look at is_drawn.
UnlockCheckNoDrawn(game, user_id) ==
    IF game.creator_chat_id # user_id THEN "permission_denied"
    ELSE IF ~game.is_locked THEN "already_open"
    ELSE "ok"

\* src/handlers/game_lock.py cmd_unlock: the checks between the lookup of the
\* game and the UPDATE.
UnlockCheck(game, user_id) ==
    IF game.creator_chat_id # user_id THEN "permission_denied"
    ELSE IF game.is_drawn THEN "cannot_unlock_after_draw"
    ELSE IF ~game.is_locked THEN "already_open"
    ELSE "ok"

\* src/handlers/game_lock.py cmd_unlock.  The block commits by itself before
\* it answers.
UnlockRun(s, game_code, user_id, fault) ==
    IF ~GameExists(s, game_code) THEN Answered(s, "not_found", 0)
    ELSE LET check == UnlockCheck(GetGameByCode(s, game_code), user_id) IN
    IF check # "ok" THEN Answered(s, check, 0)
    ELSE IF fault = "update" THEN Raised(s, s)
    ELSE LET s1 == [s EXCEPT !.games[game_code].is_locked = FALSE] IN
         IF fault = "reply" THEN Run("error", s1, s1, TRUE, 0)
         ELSE Answered(s1, "ok", 0)

\* The try block of cmd_draw and the tail of cmd_redraw: save_draw_results and
\* the answer, failing where `fault` says.
SaveRun(s, from, game_code, draw_result, fault) ==
    IF fault = "flush"
    THEN Raised(s, AddDrawResults(from, game_code, draw_result,
                                  Len(draw_result) - 1))
    ELSE IF fault = "update"
    THEN Raised(s, AddDrawResults(from, game_code, draw_result,
                                  Len(draw_result)))
    ELSE LET s1 == SaveDrawResults(from, game_code, draw_result) IN
         IF fault = "reply" THEN Raised(s, s1)
         ELSE Answered(s1, "ok", Len(draw_result))

\* A draw that does not look at is_locked.
DrawCheckNoLocked(game, user_id) ==
    IF game.creator_chat_id # user_id THEN "permission_denied"
    ELSE IF game.is_drawn THEN "already_drawn"
    ELSE "ok"

\* A draw that does not look at is_drawn.
DrawCheckNoDrawn(game, user_id) ==
    IF game.creator_chat_id # user_id THEN "permission_denied"
    ELSE IF ~game.is_locked THEN "not_locked"
    ELSE "ok"

\* src/handlers/draw.py cmd_draw: the checks between the lookup of the game
\* and get_participants.
DrawCheck(game, user_id) ==
    IF game.creator_chat_id # user_id THEN "permission_denied"
    ELSE IF ~game.is_locked THEN "not_locked"
    ELSE IF game.is_drawn THEN "already_drawn"
    ELSE "ok"

\* src/handlers/draw.py cmd_draw; `drawn` is what perform_draw does when
\* called with the participants of the game.
DrawRun(s, game_code, user_id, drawn, fault) ==
    IF ~GameExists(s, game_code) THEN Answered(s, "not_found", 0)
    ELSE LET check == DrawCheck(GetGameByCode(s, game_code), user_id) IN
    IF check # "ok" THEN Answered(s, check, 0)
    ELSE IF drawn.status = "insufficient" THEN Answered(s, "insufficient", 0)
    ELSE IF drawn.status = "draw_error" THEN Answered(s, "draw_error", 0)
    ELSE LET properties == VerifyDrawProperties(drawn.result) IN
    IF ~(/\ properties.no_self_assignment
         /\ properties.is_permutation
         /\ properties.is_cyclic)
    THEN Answered(s, "draw_error", 0)
    ELSE SaveRun(s, s, game_code, drawn.result, fault)

\* src/handlers/draw.py cmd_draw from `try:` on, in a request that read
\* participant_names before: perform_draw (drawn), verify_draw_properties,
\* save_draw_results into the tables as they are now.  No constraint of
\* draw_results refuses a second record of a giver; a game row that is gone
\* fails the foreign key.
DrawCommitRun(s, game_code, drawn, fault) ==
    IF drawn.status = "insufficient" THEN Answered(s, "insufficient", 0)
    ELSE IF drawn.status = "draw_error" THEN Answered(s, "draw_error", 0)
    ELSE LET properties == VerifyDrawProperties(drawn.result) IN
    IF ~(/\ properties.no_self_assignment
         /\ properties.is_permutation
         /\ properties.is_cyclic)
    THEN Answered(s, "draw_error", 0)
    ELSE IF ~GameExists(s, game_code) THEN Raised(s, s)
    ELSE SaveRun(s, s, game_code, drawn.result, fault)

\* A redraw that does not look at is_locked.
RedrawCheckNoLocked(game, user_id) ==
    IF game.creator_chat_id # user_id THEN "permission_denied" ELSE "ok"

\* src/handlers/draw.py cmd_redraw: the checks between the lookup of the game
\* and get_participants.
RedrawCheck(game, user_id) ==
    IF game.creator_chat_id # user_id THEN "permission_denied"
    ELSE IF ~game.is_locked THEN "not_locked"
    ELSE "ok"

\* src/handlers/draw.py cmd_redraw; `drawn` is what perform_draw does when
\* called with the participants of the game.
RedrawRun(s, game_code, user_id, drawn, fault) ==
    IF ~GameExists(s, game_code) THEN Answered(s, "not_found", 0)
    ELSE LET check == RedrawCheck(GetGameByCode(s, game_code), user_id) IN
    IF check # "ok" THEN Answered(s, check, 0)
    ELSE LET s1 == DeleteDrawResults(s, game_code) IN
    IF drawn.status # "ok" THEN Raised(s, s1)
    ELSE SaveRun(s, s1, game_code, drawn.result, fault)

\* A purge that any user may confirm.
PurgeCheckAnyUser(game, user_id) == "ok"

\* src/handlers/game_purge.py cmd_purge and callback_purge_confirm: the check
\* between the lookup of the game and the deletion.
PurgeCheck(game, user_id) ==
    IF game.creator_chat_id # user_id THEN "permission_denied" ELSE "ok"

\* A purge request that deletes the game of its creator at once.
PurgeRunDeletes(s, game_code, user_id) ==
    IF ~GameExists(s, game_code) THEN Answered(s, "not_found", 0)
    ELSE IF GetGameByCode(s, game_code).creator_chat_id # user_id
    THEN Answered(s, "permission_denied", 0)
    ELSE Answered(DeleteGame(s, game_code), "ok", 0)

\* src/handlers/game_purge.py cmd_purge: asks for the confirmation.
PurgeRun(s, game_code, user_id) ==
    IF ~GameExists(s, game_code) THEN Answered(s, "not_found", 0)
    ELSE LET check == PurgeCheck(GetGameByCode(s, game_code), user_id) IN
    IF check # "ok" THEN Answered(s, check, 0)
    ELSE Answered(s, "ok", GetGameStats(s, game_code).participant_count)

\* src/handlers/game_purge.py callback_purge_confirm
PurgeConfirmRun(s, game_code, user_id, fault) ==
    IF ~GameExists(s, game_code) THEN Answered(s, "not_found", 0)
    ELSE LET check == PurgeCheck(GetGameByCode(s, game_code), user_id) IN
    IF check # "ok" THEN Answered(s, check, 0)
    ELSE IF fault = "update" THEN Raised(s, DeleteParticipants(s, game_code))
    ELSE LET s1 == DeleteGame(s, game_code) IN
         IF ~DeleteGameDeleted(s, game_code) THEN Answered(s1, "error", 0)
         ELSE IF fault = "reply" THEN Raised(s, s1)
         ELSE Answered(s1, "ok", 0)

\* services/export_service.py ExportService.validate_results (is_valid)
ValidateResults(results) ==
    /\ results # <<>>
    /\ \A i \in DOMAIN results : results[i][1] # results[i][2]
    /\ \A i, j \in DOMAIN results :
           i # j => results[i][1] # results[j][1] /\ results[i][2] # results[j][2]
    /\ {results[i][1] : i \in DOMAIN results}
           = {results[i][2] : i \in DOMAIN results}

\* src/handlers/game_export.py cmd_export: offers the export formats.
ExportRun(s, game_code, user_id) ==
    IF ~GameExists(s, game_code) THEN Answered(s, "not_found", 0)
    ELSE LET game == GetGameByCode(s, game_code) IN
    IF game.creator_chat_id # user_id THEN Answered(s, "permission_denied", 0)
    ELSE IF ~game.is_drawn THEN Answered(s, "not_drawn", 0)
    ELSE LET results == GetDrawResults(s, game_code) IN
    IF results = <<>> THEN Answered(s, "no_results", 0)
    ELSE IF ~ValidateResults(results) THEN Answered(s, "invalid_results", 0)
    ELSE Answered(s, "ok", Len(results))

\* src/handlers/game_join.py cmd_list: the names, the two flags and the count
\* of a game, to whoever asks; the assignment records are not read.
ListRun(s, game_code) ==
    IF ~GameExists(s, game_code) THEN Answered(s, "not_found", 0)
    ELSE LET participants == GetParticipants(s, game_code) IN
    IF participants = <<>> THEN Answered(s, "empty", 0)
    ELSE Answered(s, "ok", Len(participants))

\* src/handlers/game_purge.py cmd_info: dates, flags and the two counts of
\* get_game_stats, to whoever asks; count is the number of records.
InfoRun(s, game_code) ==
    IF ~GameExists(s, game_code) THEN Answered(s, "not_found", 0)
    ELSE Answered(s, "ok", GetGameStats(s, game_code).draw_count)

\* A callback that looks the game up and asks nothing about the caller.
ExportCallbackOutcomeAnyUser(s, game_code, user_id) ==
    IF ~GameExists(s, game_code) THEN "permission_denied" ELSE "ok"

\* src/handlers/game_export.py callback_export_text, callback_export_csv,
\* callback_export_table: the outcome and the giver -> receiver lines sent.
ExportCallbackOutcome(s, game_code, user_id) ==
    IF ~GameExists(s, game_code) THEN "permission_denied"
    ELSE IF GetGameByCode(s, game_code).creator_chat_id # user_id
    THEN "permission_denied"
    ELSE "ok"

ExportCallbackPairs(s, game_code, user_id) ==
    IF ExportCallbackOutcome(s, game_code, user_id) = "ok"
    THEN GetDrawResults(s, game_code)
    ELSE <<>>

\* The list perform_draw is called with by cmd_draw (redraw = FALSE) or
\* cmd_redraw (redraw = TRUE); <<>> when the handler returns before the call.
DrawCall(s, game_code, user_id, redraw) ==
    IF ~GameExists(s, game_code) THEN <<>>
    ELSE LET game == GetGameByCode(s, game_code)
             check == IF redraw THEN RedrawCheck(game, user_id)
                      ELSE DrawCheck(game, user_id)
         IN  IF check # "ok" THEN <<>> ELSE GetParticipants(s, game_code)

\* ---------------------------------------------------- the purge scheduler

\* A SELECT with auto_purge_at < current_time.
GetExpiredGamesStrict(s, current_time) ==
    {c \in DOMAIN s.games :
        /\ s.games[c].auto_purge_at # NoDate
        /\ s.games[c].auto_purge_at < current_time}

\* GameRepository.get_expired_games: the rows the SELECT returns, by their key.
GetExpiredGames(s, current_time) ==
    {c \in DOMAIN s.games :
        /\ s.games[c].auto_purge_at # NoDate
        /\ s.games[c].auto_purge_at <= current_time}

\* auto_purge_expired_games between get_expired_games and the for loop: `rows`
\* are the games the SELECT returned at time `at`, `live` those of them whose
\* row is still in the table.  games.id is autoincrement: a row created later
\* has another id, so a DELETE ... WHERE id = ... of the loop finds the row
\* the SELECT returned or none.  When the sweep is over (pc = "idle"), `at`
\* is when the last one ran.
Sweep(pc, at, rows, live) == [pc |-> pc, at |-> at, rows |-> rows, live |-> live]

\* on_startup has run its sweep, on empty tables.
NoSweep == Sweep("idle", 0, {}, {})

\* The rows of the snapshot that are still in the tables s.
Snapshot(sw, s) == [sw EXCEPT !.live = {c \in @ : GameExists(s, c)}]

\* One turn of the for loop: repository.delete_game(game.id) inside try/except.
\* When the storage raises on one of the three DELETEs (`stage`), the
\* statements before it have run in the session and the loop goes on.
PurgeOne(s, game_id, inTable, fails, stage) ==
    IF ~inTable THEN s
    ELSE IF ~fails THEN DeleteGame(s, game_id)
    ELSE IF stage = "participants" THEN s
    ELSE IF stage = "draw_results" THEN DeleteParticipants(s, game_id)
    ELSE DeleteDrawResults(DeleteParticipants(s, game_id), game_id)

\* A loop that the first exception of delete_game ends.
RECURSIVE PurgeLoopBreaks(_, _, _, _, _)
PurgeLoopBreaks(s, expired_games, live, failed, stage) ==
    IF expired_games = {} THEN s
    ELSE LET game == CHOOSE g \in expired_games : g \in failed \/
                                                  expired_games \cap failed = {}
         IN  IF game \in failed
             THEN PurgeOne(s, game, game \in live, TRUE, stage)
             ELSE PurgeLoopBreaks(PurgeOne(s, game, game \in live, FALSE, stage),
                                  expired_games \ {game}, live, failed, stage)

\* The for loop of auto_purge_expired_games over expired_games.
RECURSIVE PurgeLoop(_, _, _, _, _)
PurgeLoop(s, expired_games, live, failed, stage) ==
    IF expired_games = {} THEN s
    ELSE LET game == CHOOSE g \in expired_games : TRUE IN
         PurgeLoop(PurgeOne(s, game, game \in live, game \in failed, stage),
                   expired_games \ {game}, live, failed, stage)

\* purged_count when the loop ends: one for every delete_game that returned.
PurgedCount(expired_games, live, failed) ==
    Cardinality(expired_games \ failed)

\* auto_purge_expired_games from the for loop on: the session is committed
\* when the block ends, and an exception of the commit is caught, rolled back
\* and answered by `return 0`.
AutoPurgeRun(s, expired_games, live, failed, stage, fault) ==
    LET s1 == PurgeLoop(s, expired_games, live, failed, stage) IN
    IF fault = "commit" THEN Raised(s, s1)
    ELSE Run(IF failed = {} THEN "ok" ELSE "item_error", s1, s1, FALSE,
             PurgedCount(expired_games, live, failed))

\* auto_purge_task at the start of a turn of `while True`: computing the time
\* to the next midnight raises (error) and the except branch sleeps an hour
\* ("backoff"), or the task sleeps until midnight ("sleep").
AutoPurgeTask(error) == IF error THEN "backoff" ELSE "sleep"

\* auto_purge_expired_games as a whole, run at utcnow: the SELECT, the loop
\* over its rows and the commit, see AutoPurgeRun; "select" is the SELECT
\* raising, which the function answers by `return 0` too.
AutoPurgeExpiredGames(s, utcnow, failed, stage, fault) ==
    LET expired_games == GetExpiredGames(s, utcnow) IN
    IF fault = "select" THEN Raised(s, s)
    ELSE IF expired_games = {} THEN Answered(s, "ok", 0)
    ELSE AutoPurgeRun(s, expired_games, expired_games,
                      failed \cap expired_games, stage, fault)

\* No periodic sweep has run yet.
NoTime == -1

\* The process by its wall clock datetime.now(), in hours: `startup` is where
\* on_startup is, `cycle` when the task last began a turn of its loop,
\* `wake_at` when the sleep of that turn ends, `last` when the task last ran
\* a sweep.
Sched(wall, cycle, wake_at, last, startup) ==
    [wall |-> wall, cycle |-> cycle, wake_at |-> wake_at, last |-> last,
     startup |-> startup]

\* The wall clock is not followed.
NoSched == Sched(0, 0, 0, NoTime, "done")

\* A plausible slip: the wait is one day from now, whatever the time of day.
SecondsUntilMidnightFixed(wall) == HOURS_PER_DAY

\* A plausible slip: midnight is taken of today, not of tomorrow.
SecondsUntilMidnightToday(wall) ==
    (wall \div HOURS_PER_DAY) * HOURS_PER_DAY - wall

\* auto_purge_task: seconds_until_midnight for now = wall, in hours.  tomorrow
\* is now plus one day and midnight is tomorrow's date at 00:00:00.
SecondsUntilMidnight(wall) ==
    LET tomorrow == wall + HOURS_PER_DAY
        midnight == (tomorrow \div HOURS_PER_DAY) * HOURS_PER_DAY
    IN  midnight - wall

\* auto_purge_task begins a turn of its loop at `wall`: it sleeps until the
\* next midnight or, when the turn raises (error), for the backoff.
BeginCycle(sc, error) ==
    [sc EXCEPT !.cycle = sc.wall,
               !.wake_at = IF error THEN sc.wall + BACKOFF_HOURS
                           ELSE sc.wall + SecondsUntilMidnight(sc.wall)]

\* ----------------------------------------------------------------- actions

Faults == {"none", "flush", "update", "reply"}

\* The handler has run, once (r): its session is committed or rolled back
\* and its answer is out.
Handled(op, game_code, user_id, name, run) ==
    \E r \in {run} :
    /\ db' = GetSession(r.committed, r.session, r.raised)
    /\ reply' = Reply(op, game_code, user_id, name, r.outcome, r.count, <<>>)
    /\ sweep' = Snapshot(sweep, db')
    /\ UNCHANGED <<now, export_kb, draw_input, draw_output, checks, task,
                   sched, requests, router>>

\* ------------------------------------------------ src/bot.py, the routers

\* The text of a message no game code equals: a line that is not one code.
NoSuchCode == "?"

\* One handler of a router: the decorator's filter and the function's name.
\* kind "text" is F.text == arg (the caption of a menu button, named here by
\* the button), "state" is an FSM state, "command" is Command(arg), "any" is
\* the bare @router.message().
Handler(name, kind, arg) == [name |-> name, kind |-> kind, arg |-> arg]

\* The menu buttons whose handlers ask for a game code.
CodeButtons == {"list", "info", "lock", "unlock", "draw", "export", "purge"}

\* src/handlers/button_handler.py, in the order of registration.
button_router ==
    <<Handler("button_new_game", "text", "button:new"),
      Handler("button_help", "text", "button:help"),
      Handler("button_main_menu", "text", "button:start"),
      Handler("button_join", "text", "button:join"),
      Handler("button_list", "text", "button:list"),
      Handler("button_info", "text", "button:info"),
      Handler("button_lock", "text", "button:lock"),
      Handler("button_unlock", "text", "button:unlock"),
      Handler("button_draw", "text", "button:draw"),
      Handler("button_export", "text", "button:export"),
      Handler("button_purge", "text", "button:purge"),
      Handler("process_game_code", "state", "waiting_for_code"),
      Handler("process_join_data", "state", "waiting_for_join_data"),
      Handler("handle_unknown_message", "any", None)>>

\* src/handlers/game_creation.py
creation_router ==
    <<Handler("cmd_new", "command", "/new"),
      Handler("cmd_start", "command", "/start"),
      Handler("cmd_help", "command", "/help")>>

\* src/handlers/game_join.py
join_router ==
    <<Handler("cmd_join", "command", "/join"),
      Handler("cmd_list", "command", "/list")>>

\* src/handlers/game_lock.py
lock_router ==
    <<Handler("cmd_lock", "command", "/lock"),
      Handler("cmd_unlock", "command", "/unlock")>>

\* src/handlers/draw.py
draw_router ==
    <<Handler("cmd_draw", "command", "/draw"),
      Handler("cmd_redraw", "command", "/redraw")>>

\* src/handlers/game_export.py
export_router == <<Handler("cmd_export", "command", "/export")>>

\* src/handlers/game_purge.py
purge_router ==
    <<Handler("cmd_purge", "command", "/purge"),
      Handler("cmd_info", "command", "/info")>>

\* main: dp.include_router, in this order.
Routers ==
    <<button_router, creation_router, join_router, lock_router, draw_router,
      export_router, purge_router>>

\* A text message: its first word or button, and the code and the name that
\* follow it.
Text(head, code, name) == [head |-> head, code |-> code, name |-> name]

\* The filters of handler h pass for message text of a user whose FSM state
\* is state.
Matches(h, text, state) ==
    CASE h.kind = "text" -> text.head = h.arg
      [] h.kind = "state" -> state = h.arg
      [] h.kind = "command" -> text.head = h.arg
      [] OTHER -> TRUE

\* Router.propagate_event: the handlers of one router from the i-th on, the
\* first whose filters pass handles the message; None is UNHANDLED.
RECURSIVE Trigger(_, _, _, _)
Trigger(handlers, i, text, state) ==
    IF i > Len(handlers) THEN None
    ELSE IF Matches(handlers[i], text, state) THEN handlers[i].name
    ELSE Trigger(handlers, i + 1, text, state)

\* Dispatcher.feed_update: the routers from the k-th on in the order of
\* inclusion, a message one router has handled is not offered to the next.
RECURSIVE PropagateEvent(_, _, _, _)
PropagateEvent(routers, k, text, state) ==
    IF k > Len(routers) THEN None
    ELSE LET handled == Trigger(routers[k], 1, text, state) IN
         IF handled # None THEN handled
         ELSE PropagateEvent(routers, k + 1, text, state)

\* The FSM storage of one user: the state and the data of FSMContext.
NoFsm == [state |-> None, command_type |-> None, last_game_code |-> None]

\* What a handler does before the command it calls, if it calls one: the
\* command and its arguments, the FSM storage it leaves, the keyboard and the
\* answer it sends itself.
Call(command, code, name, fsm, kb, answer) ==
    [command |-> command, code |-> code, name |-> name, fsm |-> fsm,
     kb |-> kb, answer |-> answer]

\* The button handlers of a command that needs a code (button_list ...
\* button_purge): get_last_game_code_keyboard, or waiting_for_code.
ButtonCall(command_type, fsm) ==
    LET data == [fsm EXCEPT !.command_type = command_type] IN
    IF fsm.last_game_code # None
    THEN Call(None, None, None, data,
              <<command_type, fsm.last_game_code>>, "ask_last_code")
    ELSE Call(None, None, None, [data EXCEPT !.state = "waiting_for_code"],
              <<>>, "ask_code")

\* execute_command: last_game_code is saved and the command called; a
\* command_type without a branch calls nothing.
ExecuteCommand(command_type, game_code, fsm, kb) ==
    Call(IF command_type \in CodeButtons THEN command_type ELSE None,
         game_code, None, [fsm EXCEPT !.last_game_code = game_code], kb,
         "none")

\* The body of the handler named handler for message text, the FSM storage
\* of the sender being fsm and kb the keyboard of codes last sent.
\* process_game_code takes message.text.strip().upper() for the code, which
\* the command parses with split(maxsplit=1): a line of one code is that
\* code.  process_join_data refuses a line of fewer than two words.
HandlerCall(handler, text, fsm, kb) ==
    CASE handler = "button_new_game" ->
             Call("new", None, None, fsm, kb, "none")
      [] handler \in {"button_help", "cmd_help"} ->
             Call(None, None, None, fsm, kb, "help")
      [] handler \in {"button_main_menu", "cmd_start"} ->
             Call(None, None, None, fsm, kb, "start")
      [] handler = "button_join" ->
             Call(None, None, None,
                  [fsm EXCEPT !.state = "waiting_for_join_data"], kb,
                  "ask_join_data")
      [] handler = "button_list" -> ButtonCall("list", fsm)
      [] handler = "button_info" -> ButtonCall("info", fsm)
      [] handler = "button_lock" -> ButtonCall("lock", fsm)
      [] handler = "button_unlock" -> ButtonCall("unlock", fsm)
      [] handler = "button_draw" -> ButtonCall("draw", fsm)
      [] handler = "button_export" -> ButtonCall("export", fsm)
      [] handler = "button_purge" -> ButtonCall("purge", fsm)
      [] handler = "process_game_code" ->
             ExecuteCommand(fsm.command_type,
                            IF text.head = "text" /\ text.name = None
                            THEN text.code ELSE NoSuchCode,
                            NoFsm, kb)
      [] handler = "process_join_data" ->
             IF text.code = None \/ (text.head = "text" /\ text.name = None)
             THEN Call(None, None, None, NoFsm, kb, "format_error")
             ELSE IF text.head = "text" /\ text.name # None
             THEN Call("join", text.code, text.name, NoFsm, kb, "none")
             ELSE Call("join", NoSuchCode, text.code, NoFsm, kb, "none")
      [] handler = "handle_unknown_message" ->
             Call(None, None, None, fsm, kb, "unknown")
      [] handler = "cmd_new" -> Call("new", None, None, fsm, kb, "none")
      [] handler = "cmd_join" ->
             Call("join", text.code, text.name, fsm, kb, "none")
      [] handler = "cmd_list" -> Call("list", text.code, None, fsm, kb, "none")
      [] handler = "cmd_info" -> Call("info", text.code, None, fsm, kb, "none")
      [] handler = "cmd_lock" -> Call("lock", text.code, None, fsm, kb, "none")
      [] handler = "cmd_unlock" ->
             Call("unlock", text.code, None, fsm, kb, "none")
      [] handler = "cmd_draw" -> Call("draw", text.code, None, fsm, kb, "none")
      [] handler = "cmd_redraw" ->
             Call("redraw", text.code, None, fsm, kb, "none")
      [] handler = "cmd_export" ->
             Call("export", text.code, None, fsm, kb, "none")
      [] handler = "cmd_purge" ->
             Call("purge", text.code, None, fsm, kb, "none")
      [] OTHER -> Call(None, None, None, fsm, kb, "unhandled")

\* The runs the command a handler calls can take, one for each shuffle and
\* each fault; a handler that calls no command answers by itself.
CommandRuns(s, call, user_id, utcnow) ==
    CASE call.command = "new" ->
             {[code |-> IF game_code = None \/ fault # "none" THEN None
                        ELSE game_code,
               run |-> NewRun(s, user_id, game_code, utcnow, fault)] :
                  game_code \in {GenerateGameCode(s, PickRun(first, first), 1) :
                                     first \in Codes},
                  fault \in {"none", "flush", "reply"}}
      [] call.command = "join" ->
             {[code |-> call.code,
               run |-> JoinRun(s, call.code, user_id, call.name, fault)] :
                  fault \in {"none", "flush", "reply"}}
      [] call.command = "list" ->
             {[code |-> call.code, run |-> ListRun(s, call.code)]}
      [] call.command = "info" ->
             {[code |-> call.code, run |-> InfoRun(s, call.code)]}
      [] call.command = "lock" ->
             {[code |-> call.code,
               run |-> LockRun(s, call.code, user_id, fault)] :
                  fault \in {"none", "update", "reply"}}
      [] call.command = "unlock" ->
             {[code |-> call.code,
               run |-> UnlockRun(s, call.code, user_id, fault)] :
                  fault \in {"none", "update", "reply"}}
      [] call.command = "draw" ->
             {[code |-> call.code,
               run |-> DrawRun(s, call.code, user_id,
                               PerformDraw(DrawCall(s, call.code, user_id,
                                                    FALSE), shuffle),
                               fault)] :
                  shuffle \in Shuffles(Len(DrawCall(s, call.code, user_id,
                                                    FALSE))),
                  fault \in Faults}
      [] call.command = "redraw" ->
             {[code |-> call.code,
               run |-> RedrawRun(s, call.code, user_id,
                                 PerformDraw(DrawCall(s, call.code, user_id,
                                                      TRUE), shuffle),
                                 fault)] :
                  shuffle \in Shuffles(Len(DrawCall(s, call.code, user_id,
                                                    TRUE))),
                  fault \in Faults}
      [] call.command = "export" ->
             {[code |-> call.code, run |-> ExportRun(s, call.code, user_id)]}
      [] call.command = "purge" ->
             {[code |-> call.code, run |-> PurgeRun(s, call.code, user_id)]}
      [] OTHER -> {}

\* first and second are what _generate_code returns, see PickRun.
cmd_new(user_id, first, second) ==
    \E game_code \in {GenerateGameCode(db, PickRun(first, second), 1)} :
        \E fault \in {"none", "flush", "reply"} :
            LET run == NewRun(db, user_id, game_code, now, fault) IN
            Handled("new", IF run.outcome = "ok" THEN game_code ELSE None,
                    user_id, None, run)

cmd_join(game_code, user_id, name) ==
    \E fault \in {"none", "flush", "reply"} :
        Handled("join", game_code, user_id, name,
                JoinRun(db, game_code, user_id, name, fault))

cmd_lock(game_code, user_id) ==
    \E fault \in {"none", "update", "reply"} :
        Handled("lock", game_code, user_id, None,
                LockRun(db, game_code, user_id, fault))

cmd_unlock(game_code, user_id) ==
    \E fault \in {"none", "update", "reply"} :
        Handled("unlock", game_code, user_id, None,
                UnlockRun(db, game_code, user_id, fault))

\* perform_draw runs once in a request (drawn), on the list DrawCall gives.
cmd_draw(game_code, user_id) ==
    \E shuffle \in Shuffles(Len(DrawCall(db, game_code, user_id, FALSE))) :
        \E drawn \in {PerformDraw(DrawCall(db, game_code, user_id, FALSE),
                                  shuffle)} :
            \E fault \in Faults :
                Handled("draw", game_code, user_id, None,
                        DrawRun(db, game_code, user_id, drawn, fault))

\* cmd_draw up to the "processing" message: the game and the participants
\* are read, and the request waits for Telegram while other requests run.  A
\* request that fails a check is answered at once.
draw_read(r, game_code, user_id) ==
    /\ requests[r].pc = "idle"
    /\ LET check == IF ~GameExists(db, game_code) THEN "not_found"
                     ELSE DrawCheck(GetGameByCode(db, game_code), user_id)
       IN  IF check # "ok"
           THEN /\ reply' = Reply("draw", game_code, user_id, None, check, 0,
                                  <<>>)
                /\ UNCHANGED requests
           ELSE /\ reply' = Reply("draw", game_code, user_id, None,
                                  "processing", 0, <<>>)
                /\ requests' = [requests EXCEPT ![r] =
                       [pc |-> "read", op |-> "draw", game_code |-> game_code,
                        user_id |-> user_id, name |-> None,
                        participants |-> GetParticipants(db, game_code),
                        session |-> db]]
    /\ db' = GetSession(db, db, FALSE)
    /\ UNCHANGED <<now, export_kb, draw_input, draw_output, checks, sweep,
                   task, sched, router>>

\* cmd_draw from the "processing" message on: the draw of the names read
\* earlier is saved and the session committed, or rolled back on an error.
draw_commit(r) ==
    /\ requests[r].pc = "read"
    /\ \E shuffle \in Shuffles(Len(requests[r].participants)) :
        \E drawn \in {PerformDraw(requests[r].participants, shuffle)} :
        \E fault \in Faults :
        \E run \in {DrawCommitRun(db, requests[r].game_code, drawn, fault)} :
            /\ db' = GetSession(run.committed, run.session, run.raised)
            /\ reply' = Reply("draw", requests[r].game_code,
                              requests[r].user_id, None, run.outcome,
                              run.count, <<>>)
    /\ requests' = [requests EXCEPT ![r] = NoRequest]
    /\ sweep' = Snapshot(sweep, db')
    /\ UNCHANGED <<now, export_kb, draw_input, draw_output, checks, task,
                   sched, router>>

\* cmd_join up to its check of is_locked: the game is read, and the request
\* waits for the database while other requests run.  A request for a game
\* that is missing or locked is answered at once.
join_read(r, game_code, user_id, name) ==
    /\ requests[r].pc = "idle"
    /\ LET check == IF ~GameExists(db, game_code) THEN "not_found"
                     ELSE JoinCheck(GetGameByCode(db, game_code), FALSE)
       IN  IF check # "ok"
           THEN /\ reply' = Reply("join", game_code, user_id, name, check, 0,
                                  <<>>)
                /\ UNCHANGED requests
           ELSE /\ reply' = reply
                /\ requests' = [requests EXCEPT ![r] =
                       [pc |-> "join", op |-> "join", game_code |-> game_code,
                        user_id |-> user_id, name |-> name,
                        participants |-> <<>>, session |-> db]]
    /\ db' = GetSession(db, db, FALSE)
    /\ UNCHANGED <<now, export_kb, draw_input, draw_output, checks, sweep,
                   task, sched, router>>

\* cmd_join from participant_exists on: the name is added and the session
\* committed, or rolled back on an error.
join_commit(r) ==
    /\ requests[r].pc = "join"
    /\ \E fault \in {"none", "flush", "reply"} :
        \E run \in {JoinCommitRun(db, requests[r].game_code, requests[r].name,
                                  fault)} :
            /\ db' = GetSession(run.committed, run.session, run.raised)
            /\ reply' = Reply("join", requests[r].game_code,
                              requests[r].user_id, requests[r].name,
                              run.outcome, run.count, <<>>)
    /\ requests' = [requests EXCEPT ![r] = NoRequest]
    /\ sweep' = Snapshot(sweep, db')
    /\ UNCHANGED <<now, export_kb, draw_input, draw_output, checks, task,
                   sched, router>>

cmd_redraw(game_code, user_id) ==
    \E shuffle \in Shuffles(Len(DrawCall(db, game_code, user_id, TRUE))) :
        \E drawn \in {PerformDraw(DrawCall(db, game_code, user_id, TRUE),
                                  shuffle)} :
            \E fault \in Faults :
                Handled("redraw", game_code, user_id, None,
                        RedrawRun(db, game_code, user_id, drawn, fault))

cmd_purge(game_code, user_id) ==
    Handled("purge", game_code, user_id, None,
            PurgeRun(db, game_code, user_id))

\* Telegram delivers the callback when the user presses a confirmation button
\* the bot sent at any earlier time; the handler reads the game afresh.
callback_purge_confirm(game_code, user_id) ==
    \E fault \in {"none", "update", "reply"} :
        Handled("purge_confirm", game_code, user_id, None,
                PurgeConfirmRun(db, game_code, user_id, fault))

\* src/handlers/game_purge.py callback_purge_cancel: no session is opened.
callback_purge_cancel(game_code, user_id) ==
    Handled("purge_cancel", game_code, user_id, None, Answered(db, "ok", 0))

cmd_export(game_code, user_id) ==
    LET run == ExportRun(db, game_code, user_id) IN
    /\ db' = GetSession(run.committed, run.session, run.raised)
    /\ reply' = Reply("export", game_code, user_id, None, run.outcome,
                      run.count, <<>>)
    /\ export_kb' = IF run.outcome = "ok" THEN <<game_code, user_id>>
                    ELSE export_kb
    /\ UNCHANGED <<now, draw_input, draw_output, checks, sweep, task, sched,
                   requests, router>>

\* One of the three format buttons of the keyboard cmd_export sent is pressed.
callback_export(game_code, user_id) ==
    /\ export_kb = <<game_code, user_id>>
    /\ \E format \in {"export_text", "export_csv", "export_table"} :
        /\ db' = GetSession(db, db, FALSE)
        /\ reply' = Reply(format, game_code, user_id, None,
                          ExportCallbackOutcome(db, game_code, user_id), 0,
                          ExportCallbackPairs(db, game_code, user_id))
    /\ UNCHANGED <<now, export_kb, draw_input, draw_output, checks, sweep,
                   task, sched, requests, router>>

cmd_list(game_code, user_id) ==
    Handled("list", game_code, user_id, None, ListRun(db, game_code))

cmd_info(game_code, user_id) ==
    Handled("info", game_code, user_id, None, InfoRun(db, game_code))

\* The handler the dispatcher has chosen runs whole: the FSM storage, the
\* keyboard of codes, and the command the handler calls with its session.
Dispatched(handler, user_id, text, call) ==
    /\ router' = [handled_by |-> handler, user |-> user_id, text |-> text,
                  fsm |-> [router.fsm EXCEPT ![user_id] = call.fsm],
                  kb |-> call.kb]
    /\ IF call.command = None
       THEN /\ reply' = Reply(call.answer, None, user_id, None, "ok", 0, <<>>)
            /\ UNCHANGED <<db, sweep, export_kb>>
       ELSE \E c \in CommandRuns(db, call, user_id, now) :
            /\ db' = GetSession(c.run.committed, c.run.session, c.run.raised)
            /\ reply' = Reply(call.command, c.code, user_id, call.name,
                              c.run.outcome, c.run.count, <<>>)
            /\ sweep' = Snapshot(sweep, db')
            /\ export_kb' = IF call.command = "export" /\ c.run.outcome = "ok"
                            THEN <<c.code, user_id>> ELSE export_kb
    /\ UNCHANGED <<now, draw_input, draw_output, checks, task, sched,
                   requests>>

\* Dispatcher.feed_update for a text message of user_id.
feed_update(user_id, text) ==
    \E handler \in {PropagateEvent(Routers, 1, text,
                                   router.fsm[user_id].state)} :
        Dispatched(handler, user_id, text,
                   HandlerCall(handler, text, router.fsm[user_id], router.kb))

\* The first button of the keyboard of codes is pressed: the message with the
\* keyboard is deleted and the command runs for the last code.
callback_use_last_code(user_id) ==
    /\ router.kb # <<>>
    /\ Dispatched("callback_use_last_code", user_id, Text("callback", None, None),
                  ExecuteCommand(router.kb[1], router.kb[2],
                                 router.fsm[user_id], <<>>))

\* The second button of the keyboard of codes is pressed.
callback_enter_new_code(user_id) ==
    /\ router.kb # <<>>
    /\ Dispatched("callback_enter_new_code", user_id,
                  Text("callback", None, None),
                  Call(None, None, None,
                       [router.fsm[user_id] EXCEPT !.state = "waiting_for_code"],
                       <<>>, "ask_code"))

\* cmd_new, cmd_join, cmd_lock or cmd_draw up to the end of the block of
\* get_session, the answer included: what the handler wrote is in the
\* session, not yet committed.  A handler that wrote nothing, or raised, is
\* over with its answer.  SQLite admits one writing transaction at a time.
handler_answer(r, op, game_code, user_id, name) ==
    /\ \A q \in Requests : requests[q].pc = "idle"
    /\ \E c \in CommandRuns(db, Call(op, game_code, name, NoFsm, <<>>, "none"),
                             user_id, now) :
        /\ reply' = Reply(op, c.code, user_id, name, c.run.outcome,
                          c.run.count, <<>>)
        /\ IF c.run.raised \/ c.run.session = db
           THEN UNCHANGED requests
           ELSE requests' = [requests EXCEPT ![r] =
                    [pc |-> "answered", op |-> op, game_code |-> c.code,
                     user_id |-> user_id, name |-> name,
                     participants |-> <<>>, session |-> c.run.session]]
    /\ db' = GetSession(db, db, FALSE)
    /\ UNCHANGED <<now, export_kb, draw_input, draw_output, checks, sweep,
                   task, sched, router>>

\* get_session after the block: session.commit(), and when the commit raises
\* session.rollback() and the handler's `except Exception`, which answers
\* with its error text.
session_commit(r) ==
    /\ requests[r].pc = "answered"
    /\ \E fault \in {"none", "commit"} :
        /\ db' = GetSession(db, requests[r].session, fault = "commit")
        /\ reply' = IF fault = "commit"
                    THEN Reply(requests[r].op, requests[r].game_code,
                               requests[r].user_id, requests[r].name, "error",
                               0, <<>>)
                    ELSE reply
    /\ requests' = [requests EXCEPT ![r] = NoRequest]
    /\ sweep' = Snapshot(sweep, db')
    /\ UNCHANGED <<now, export_kb, draw_input, draw_output, checks, task,
                   sched, router>>

\* The draw service called on its own with the list draw_input.
perform_draw ==
    /\ draw_output = NoOutput
    /\ \E shuffle \in Shuffles(Len(draw_input)) :
           draw_output' = PerformDraw(draw_input, shuffle)
    /\ UNCHANGED <<db, now, reply, export_kb, draw_input, checks, sweep, task,
                   sched, requests, router>>

\* verify_draw_properties called on its own, with the dict perform_draw
\* returned ("ok") or with a dict made by hand ("given").
verify_draw_properties ==
    /\ draw_output.status \in {"ok", "given"}
    /\ ~checks.ran
    /\ checks' = [ran |-> TRUE, value |-> VerifyDrawProperties(draw_output.result)]
    /\ UNCHANGED <<db, now, reply, export_kb, draw_input, draw_output, sweep,
                   task, sched, requests, router>>

\* _validate_draw called as perform_draw calls it, with a candidate dict and
\* the participants: it returns ("ok") or raises DrawError.
validate_draw ==
    /\ draw_output.status = "candidate"
    /\ draw_output' =
           IF ValidateDraw(draw_output.result, draw_input)
           THEN [status |-> "ok", result |-> draw_output.result]
           ELSE [status |-> "draw_error", result |-> <<>>]
    /\ UNCHANGED <<db, now, reply, export_kb, draw_input, checks, sweep, task,
                   sched, requests, router>>

\* datetime.utcnow() moves on by one retention window.
Tick ==
    /\ now + AUTO_PURGE_DAYS <= MaxDays
    /\ now' = now + AUTO_PURGE_DAYS
    /\ UNCHANGED <<db, reply, export_kb, draw_input, draw_output, checks,
                   sweep, task, sched, requests, router>>

\* The sweep has returned `count`; the task logs it and starts its next turn.
Swept(outcome, count, at) ==
    /\ reply' = Reply("sweep", None, 0, None, outcome, count, <<>>)
    /\ sweep' = Sweep("idle", at, {}, {})
    /\ \E error \in BOOLEAN : task' = AutoPurgeTask(error)
    /\ UNCHANGED <<now, export_kb, draw_input, draw_output, checks, sched,
                   requests, router>>

\* auto_purge_task: asyncio.sleep(seconds_until_midnight) is over and
\* auto_purge_expired_games runs up to the result of get_expired_games.  When
\* the SELECT raises ("select") or no game is expired it returns 0 at once.
auto_purge_task_wake ==
    /\ task = "sleep"
    /\ \E fault \in {"none", "select"} :
        \E expired_games \in {GetExpiredGames(db, now)} :
            IF fault = "select"
            THEN db' = GetSession(db, db, TRUE) /\ Swept("error", 0, now)
            ELSE IF expired_games = {}
            THEN db' = GetSession(db, db, FALSE) /\ Swept("ok", 0, now)
            ELSE /\ sweep' = Sweep("selected", now, expired_games, expired_games)
                 /\ task' = "purge"
                 /\ UNCHANGED <<db, now, reply, export_kb, draw_input,
                                draw_output, checks, sched, requests, router>>

\* auto_purge_expired_games from its for loop to its return.
auto_purge_expired_games ==
    /\ sweep.pc = "selected"
    /\ \E failed \in SUBSET sweep.rows :
        \E stage \in {"participants", "draw_results", "game"} :
        \E fault \in {"none", "commit"} :
            \E r \in {AutoPurgeRun(db, sweep.rows, sweep.live, failed, stage,
                                    fault)} :
                /\ db' = GetSession(r.committed, r.session, r.raised)
                /\ Swept(r.outcome, r.count, sweep.at)

\* auto_purge_task: asyncio.sleep(3600) of the except branch is over.
auto_purge_task_retry ==
    /\ task = "backoff"
    /\ \E error \in BOOLEAN : task' = AutoPurgeTask(error)
    /\ UNCHANGED <<db, now, reply, export_kb, draw_input, draw_output, checks,
                   sweep, sched, requests, router>>

\* on_startup: the sweep at the start of the process.
on_startup ==
    /\ sched.startup = "pending"
    /\ \E failed \in SUBSET GetExpiredGames(db, now) :
        \E stage \in {"participants", "draw_results", "game"} :
        \E fault \in {"none", "select", "commit"} :
            \E r \in {AutoPurgeExpiredGames(db, now, failed, stage, fault)} :
                /\ db' = GetSession(r.committed, r.session, r.raised)
                /\ reply' = Reply("startup", None, 0, None, r.outcome, r.count,
                                  <<>>)
    /\ sched' = [sched EXCEPT !.startup = "done"]
    /\ UNCHANGED <<now, export_kb, draw_input, draw_output, checks, sweep,
                   task, requests, router>>

\* auto_purge_task by the clock: the sleep until midnight is over, the sweep
\* runs and the next turn of the loop begins.
auto_purge_task ==
    /\ task = "sleep"
    /\ sched.wall >= sched.wake_at
    /\ \E failed \in SUBSET GetExpiredGames(db, now) :
        \E stage \in {"participants", "draw_results", "game"} :
        \E fault \in {"none", "select", "commit"} :
            \E r \in {AutoPurgeExpiredGames(db, now, failed, stage, fault)} :
                /\ db' = GetSession(r.committed, r.session, r.raised)
                /\ reply' = Reply("sweep", None, 0, None, r.outcome, r.count,
                                  <<>>)
    /\ \E error \in BOOLEAN :
        /\ task' = AutoPurgeTask(error)
        /\ sched' = BeginCycle([sched EXCEPT !.last = sched.wall], error)
    /\ UNCHANGED <<now, export_kb, draw_input, draw_output, checks, sweep,
                   requests, router>>

\* auto_purge_task by the clock: the sleep of the except branch is over and
\* the next turn of the loop begins.
auto_purge_task_except ==
    /\ task = "backoff"
    /\ sched.wall >= sched.wake_at
    /\ \E error \in BOOLEAN :
        /\ task' = AutoPurgeTask(error)
        /\ sched' = BeginCycle(sched, error)
    /\ UNCHANGED <<db, now, reply, export_kb, draw_input, draw_output, checks,
                   sweep, requests, router>>

\* An hour passes.  on_startup is over within the hour the process started
\* in, and a sleep of the task that has run out ends before the next hour.
ClockTick ==
    /\ sched.wall < MaxHours
    /\ sched.startup = "done"
    /\ task \in {"sleep", "backoff"} => sched.wall < sched.wake_at
    /\ sched' = [sched EXCEPT !.wall = sched.wall + 1]
    /\ now' = (sched.wall + 1) \div HOURS_PER_DAY
    /\ UNCHANGED <<db, reply, export_kb, draw_input, draw_output, checks,
                   sweep, task, requests, router>>

\* ---------------------------------------------------------- specifications

NoReply == Reply("start", None, 0, None, None, 0, <<>>)

\* The bot after on_startup with empty tables.
Init ==
    /\ db = EmptyDb
    /\ now = 0
    /\ reply = NoReply
    /\ export_kb = <<>>
    /\ draw_input = <<>>
    /\ draw_output = NoOutput
    /\ sweep = NoSweep
    /\ task = "sleep"
    /\ checks = NoChecks
    /\ sched = NoSched
    /\ requests = NoRequests
    /\ router = NoRouter

Lifecycle(game_code, user_id) ==
    \/ \E name \in Names : cmd_join(game_code, user_id, name)
    \/ cmd_lock(game_code, user_id)
    \/ cmd_unlock(game_code, user_id)
    \/ cmd_draw(game_code, user_id)
    \/ cmd_redraw(game_code, user_id)
    \/ cmd_purge(game_code, user_id)
    \/ callback_purge_confirm(game_code, user_id)
    \/ callback_purge_cancel(game_code, user_id)

Next ==
    \/ \E user_id \in Users, first \in Codes, second \in Codes :
        cmd_new(user_id, first, second)
    \/ \E game_code \in Codes, user_id \in Users :
        \/ Lifecycle(game_code, user_id)
        \/ cmd_export(game_code, user_id)
        \/ callback_export(game_code, user_id)

\* The lifecycle of the games and their exports, every handler one transaction.
Spec == Init /\ [][Next]_vars

NextReplies ==
    \/ Next
    \/ \E game_code \in Codes, user_id \in Users :
        \/ cmd_list(game_code, user_id)
        \/ cmd_info(game_code, user_id)

\* The lifecycle with the two handlers that only read a game.
SpecReplies == Init /\ [][NextReplies]_vars

\* The names of the joins and the user of the requests next to the scheduler.
FirstNames == {NamePool[i] : i \in 1..MIN_PARTICIPANTS}

Organizers == {1001}

PurgeLifecycle(game_code, user_id) ==
    \/ \E name \in FirstNames : cmd_join(game_code, user_id, name)
    \/ cmd_lock(game_code, user_id)
    \/ cmd_draw(game_code, user_id)
    \/ cmd_redraw(game_code, user_id)

NextPurge ==
    \/ \E user_id \in Organizers, first \in AllCodes, second \in AllCodes :
        /\ now + AUTO_PURGE_DAYS <= MaxDays
        /\ cmd_new(user_id, first, second)
    \/ \E game_code \in Codes, user_id \in Organizers :
        PurgeLifecycle(game_code, user_id)
    \/ \E game_code \in AllCodes, user_id \in Organizers :
        callback_purge_confirm(game_code, user_id)
    \/ Tick
    \/ auto_purge_task_wake
    \/ auto_purge_expired_games
    \/ auto_purge_task_retry

\* The purge scheduler next to the requests of one organizer, who plays one
\* game and creates and deletes another; games are created as long as their
\* expiration is within MaxDays.
SpecPurge == Init /\ [][NextPurge]_vars

\* The clock goes on; the task is scheduled again and again, and neither the
\* storage nor the computing of the next midnight fails for ever.
FairPurge ==
    /\ WF_vars(Tick)
    /\ SF_vars(auto_purge_task_wake
                   /\ (sweep'.pc = "selected" \/ reply'.outcome = "ok"))
    /\ SF_vars(auto_purge_expired_games /\ reply'.outcome = "ok")
    /\ SF_vars(auto_purge_task_retry /\ task' = "sleep")

SpecPurgeFair == SpecPurge /\ FairPurge

TwoGamesLifecycle(game_code, user_id) ==
    \/ \E name \in FirstNames : cmd_join(game_code, user_id, name)
    \/ cmd_lock(game_code, user_id)
    \/ cmd_unlock(game_code, user_id)
    \/ cmd_draw(game_code, user_id)
    \/ cmd_redraw(game_code, user_id)
    \/ cmd_purge(game_code, user_id)
    \/ callback_purge_confirm(game_code, user_id)
    \/ cmd_export(game_code, user_id)
    \/ callback_export(game_code, user_id)

NextTwoGames ==
    \/ \E user_id \in Organizers, first \in AllCodes, second \in AllCodes :
        cmd_new(user_id, first, second)
    \/ \E game_code \in AllCodes, user_id \in Organizers :
        TwoGamesLifecycle(game_code, user_id)

\* One organizer plays two games side by side, with the same names.
SpecTwoGames == Init /\ [][NextTwoGames]_vars

\* One organizer fills and locks a game, and two /draw requests for it are
\* handled at the same time.
NextTwoDraws ==
    \/ \E user_id \in Organizers, first \in Codes, second \in Codes :
        cmd_new(user_id, first, second)
    \/ \E game_code \in Codes, user_id \in Users :
        \/ \E name \in FirstNames : cmd_join(game_code, user_id, name)
        \/ cmd_lock(game_code, user_id)
        \/ \E r \in Requests : draw_read(r, game_code, user_id)
    \/ \E r \in Requests : draw_commit(r)

SpecTwoDraws == Init /\ [][NextTwoDraws]_vars

\* One organizer runs a game while a join of it is between its check of
\* is_locked and its insert.
NextJoinRace ==
    \/ \E user_id \in Organizers, first \in Codes, second \in Codes :
        cmd_new(user_id, first, second)
    \/ \E game_code \in Codes, user_id \in Organizers :
        \/ \E name \in FirstNames : cmd_join(game_code, user_id, name)
        \/ cmd_lock(game_code, user_id)
        \/ cmd_draw(game_code, user_id)
        \/ \E r \in Requests, name \in Names :
               join_read(r, game_code, user_id, name)
    \/ \E r \in Requests : join_commit(r)

SpecJoinRace == Init /\ [][NextJoinRace]_vars

\* One organizer locks, unlocks and draws a game; an unlock may be handled
\* while a draw waits between its reads and its commit.
NextUnlockRace ==
    \/ \E user_id \in Organizers, first \in Codes, second \in Codes :
        cmd_new(user_id, first, second)
    \/ \E game_code \in Codes, user_id \in Organizers :
        \/ \E name \in FirstNames : cmd_join(game_code, user_id, name)
        \/ cmd_lock(game_code, user_id)
        \/ cmd_unlock(game_code, user_id)
        \/ \E r \in Requests : draw_read(r, game_code, user_id)
    \/ \E r \in Requests : draw_commit(r)

SpecUnlockRace == Init /\ [][NextUnlockRace]_vars

\* The text messages a user sends: the commands with their arguments, the
\* menu buttons (utils/keyboards.py), a line with a code, and a line with a
\* code and a name.
Messages ==
    {Text(head, None, None) :
        head \in {"/new", "/start", "/help", "button:new", "button:help",
                  "button:start", "button:join", "button:list",
                  "button:info", "button:lock", "button:unlock",
                  "button:draw", "button:export", "button:purge"}}
        \cup {Text(head, game_code, None) :
                  head \in {"/list", "/info", "/lock", "/unlock", "/draw",
                            "/redraw", "/export", "/purge", "text"},
                  game_code \in Codes}
        \cup {Text(head, game_code, name) :
                  head \in {"/join", "text"}, game_code \in Codes,
                  name \in FirstNames}

\* The bot as the dispatcher drives it: every update goes through the routers.
NextRouting ==
    \E user_id \in Organizers :
        \/ \E text \in Messages : feed_update(user_id, text)
        \/ callback_use_last_code(user_id)
        \/ callback_enter_new_code(user_id)

SpecRouting == Init /\ [][NextRouting]_vars

\* The handlers that answer inside the block of get_session, each with the
\* commit that follows its answer.
NextCommit ==
    \/ \E r \in Requests, user_id \in Organizers :
        \/ handler_answer(r, "new", None, user_id, None)
        \/ \E game_code \in Codes :
            \/ \E name \in Names : handler_answer(r, "join", game_code,
                                                  user_id, name)
            \/ handler_answer(r, "lock", game_code, user_id, None)
            \/ handler_answer(r, "draw", game_code, user_id, None)
    \/ \E r \in Requests : session_commit(r)

SpecCommit == Init /\ [][NextCommit]_vars

\* The hours the process starts at, on the day after day 0: at midnight, an
\* hour after it, at noon and an hour before the next midnight.
StartHours == {HOURS_PER_DAY + h : h \in {0, 1, 12, HOURS_PER_DAY - 1}}

\* The days the games an earlier run of the process left behind expire on:
\* before the day of the start, on it, and on the day after it.
StoredDays == 0..2

\* The tables s and a game an earlier run left in them: just created, or
\* played up to its draw by FirstNames.
StoredGame(s, game_code, creator, auto_purge_at, played) ==
    LET s1 == CreateGame(s, game_code, creator, auto_purge_at)
        s2 == AddParticipant(AddParticipant(AddParticipant(s1, game_code,
                  NamePool[1]), game_code, NamePool[2]), game_code, NamePool[3])
        s3 == LockGame(s2, game_code)
        draw_result == CreateCyclicAssignment(<<NamePool[1], NamePool[2],
                                                NamePool[3]>>)
    IN  IF played THEN SaveDrawResults(s3, game_code, draw_result) ELSE s1

\* The tables an earlier run of the process left behind.
StoredTables ==
    LET one == {EmptyDb} \cup
               {StoredGame(EmptyDb, "SANTA42", 1001, d, played) :
                    d \in StoredDays, played \in BOOLEAN}
    IN  one \cup {StoredGame(s, "NOEL24", 1001, d, FALSE) :
                     s \in one, d \in StoredDays}

\* main has created the task, or not (settings.enable_auto_purge), and
\* starts polling: on_startup is about to run.
InitScheduler ==
    /\ db \in StoredTables
    /\ reply = NoReply
    /\ export_kb = <<>>
    /\ draw_input = <<>>
    /\ draw_output = NoOutput
    /\ sweep = NoSweep
    /\ checks = NoChecks
    /\ requests = NoRequests
    /\ router = NoRouter
    /\ \E enable_auto_purge \in BOOLEAN :
           task = IF enable_auto_purge THEN "sleep" ELSE "off"
    /\ \E wall \in StartHours :
           /\ now = wall \div HOURS_PER_DAY
           /\ sched = BeginCycle(Sched(wall, wall, wall, NoTime, "pending"),
                                 FALSE)

NextScheduler ==
    \/ on_startup
    \/ auto_purge_task
    \/ auto_purge_task_except
    \/ ClockTick
    \/ \E game_code \in AllCodes, user_id \in Users :
        callback_purge_confirm(game_code, user_id)

\* The process from its start on, by the hour: the sweep of on_startup, the
\* task's sweeps at midnight and the purges its users confirm.
SpecScheduler == InitScheduler /\ [][NextScheduler]_vars

\* Lists of at most n names, repeats allowed.
ListsUpTo(names, n) == UNION {[1..k -> names] : k \in 0..n}

InitDraw ==
    /\ db = EmptyDb
    /\ now = 0
    /\ reply = NoReply
    /\ export_kb = <<>>
    /\ draw_input \in ListsUpTo(DrawNames, MaxLen)
    /\ draw_output = NoOutput
    /\ sweep = NoSweep
    /\ task = "sleep"
    /\ checks = NoChecks
    /\ sched = NoSched
    /\ requests = NoRequests
    /\ router = NoRouter

NextDraw == perform_draw

\* The draw service on every list of names within the bounds.
SpecDraw == InitDraw /\ [][NextDraw]_vars

\* The dicts of at most n items with keys and values among names.
DictsUpTo(names, n) ==
    {d \in UNION {[1..k -> names \X names] : k \in 0..n} :
        \A i, j \in DOMAIN d : i # j => d[i][1] # d[j][1]}

\* Either a list is about to be drawn, or a dict made by hand is about to be
\* verified.
InitVerify ==
    /\ db = EmptyDb
    /\ now = 0
    /\ reply = NoReply
    /\ export_kb = <<>>
    /\ \/ /\ draw_input \in ListsUpTo(DrawNames, MaxLen)
          /\ draw_output = NoOutput
       \/ /\ draw_input = <<>>
          /\ \E d \in DictsUpTo(DrawNames, MaxPairs) :
                draw_output = [status |-> "given", result |-> d]
    /\ sweep = NoSweep
    /\ task = "sleep"
    /\ checks = NoChecks
    /\ sched = NoSched
    /\ requests = NoRequests
    /\ router = NoRouter

NextVerify == perform_draw \/ verify_draw_properties

\* The draw service: verify_draw_properties on every result of perform_draw
\* and on every dict within the bounds.
SpecVerify == InitVerify /\ [][NextVerify]_vars

\* The participants perform_draw validates against, three or more distinct
\* names, and a candidate dict of any shape.
InitValidate ==
    /\ db = EmptyDb
    /\ now = 0
    /\ reply = NoReply
    /\ export_kb = <<>>
    /\ \E k \in MIN_PARTICIPANTS..MaxLen :
           draw_input = [i \in 1..k |-> NamePool[i]]
    /\ \E d \in DictsUpTo(DrawNames, MaxLen) :
           draw_output = [status |-> "candidate", result |-> d]
    /\ sweep = NoSweep
    /\ task = "sleep"
    /\ checks = NoChecks
    /\ sched = NoSched
    /\ requests = NoRequests
    /\ router = NoRouter

NextValidate == validate_draw \/ verify_draw_properties

\* The draw service: _validate_draw on every candidate within the bounds,
\* and verify_draw_properties on what it lets through.
SpecValidate == InitValidate /\ [][NextValidate]_vars

\* -------------------------------------------------------------- properties

Distinct(xs) == \A i, j \in DOMAIN xs : i # j => xs[i] # xs[j]

\* The items of a dict as a set of <<giver, receiver>> pairs.
PairSet(d) == {d[i] : i \in DOMAIN d}

Givers(pairs) == {p[1] : p \in pairs}

Receivers(pairs) == {p[2] : p \in pairs}

\* No proper non-empty set of givers is closed under giver -> receiver.
SingleCycle(pairs) ==
    \A S \in SUBSET Givers(pairs) :
        (S # {} /\ S # Givers(pairs)) =>
            \E p \in pairs : p[1] \in S /\ p[2] \notin S

\* pairs is one cycle through all of names: a pair for each name as giver,
\* each name once as receiver, nobody their own receiver.
OneCycleThrough(pairs, names) ==
    /\ Cardinality(pairs) = Cardinality(names)
    /\ Givers(pairs) = names
    /\ Receivers(pairs) = names
    /\ \A p \in pairs : p[1] # p[2]
    /\ SingleCycle(pairs)

\* C1: perform_draw on N >= 3 pairwise distinct names returns, whatever the
\* shuffle, exactly N pairs whose givers and whose receivers are the input
\* names, with no name paired with itself, forming a single cycle of length N.
C1_PerformDrawOneCycle ==
    (/\ draw_output.status # "none"
     /\ Len(draw_input) >= MIN_PARTICIPANTS
     /\ Distinct(draw_input)) =>
        /\ draw_output.status = "ok"
        /\ Len(draw_output.result) = Len(draw_input)
        /\ OneCycleThrough(PairSet(draw_output.result), ListSet(draw_input))

\* A list of MaxLen distinct names drawn with a shuffle that moved its head.
C1_Witness ==
    /\ draw_output.status = "ok"
    /\ Len(draw_input) = MaxLen
    /\ draw_output.result[1][1] # draw_input[1]

\* The game with this code is Drawn: its row exists and has is_drawn set.
Drawn(s, game_code) ==
    GameExists(s, game_code) /\ GetGameByCode(s, game_code).is_drawn

\* The last request: handler op on the game, with this outcome.
Last(op, game_code, outcome) ==
    reply.op = op /\ reply.code = game_code /\ reply.outcome = outcome

\* C2: after any sequence of create, join, lock, unlock, draw, redraw and
\* delete, every Drawn game with N participants has exactly N assignment
\* records, whose givers and whose receivers are the game's participant names,
\* none with giver = receiver, and whose giver -> receiver chain is one N-cycle.
C2_DrawnGameHoldsOneCycle ==
    \A game_code \in Codes :
        Drawn(db, game_code) =>
            /\ BagCardinality(db.draw_results[game_code])
                   = BagCardinality(db.participants[game_code])
            /\ OneCycleThrough(BagToSet(db.draw_results[game_code]),
                               BagToSet(db.participants[game_code]))

\* A game of MaxNames participants just drawn again over its earlier results.
C2_Witness ==
    \E game_code \in Codes :
        /\ Last("redraw", game_code, "ok")
        /\ Drawn(db, game_code)
        /\ BagCardinality(db.participants[game_code]) = MaxNames
        /\ BagCardinality(db.draw_results[game_code]) = MaxNames

\* C3: in every reachable state a game whose is_drawn is true has is_locked
\* true.
C3_DrawnImpliesLocked ==
    \A game_code \in Codes :
        Drawn(db, game_code) => GetGameByCode(db, game_code).is_locked

\* The creator has just asked to unlock a Drawn game and was refused.
C3_Witness ==
    \E game_code \in Codes :
        /\ Last("unlock", game_code, "cannot_unlock_after_draw")
        /\ Drawn(db, game_code)
        /\ GetGameByCode(db, game_code).is_locked

\* C4: in every committed state a game has is_drawn true exactly when its
\* complete set of N assignment records exists: never is_drawn with fewer than
\* N records, never a record while is_drawn is false.
C4_DrawnIffAllRecords ==
    \A game_code \in Codes :
        IF Drawn(db, game_code)
        THEN /\ BagCardinality(db.draw_results[game_code])
                    = BagCardinality(db.participants[game_code])
             /\ BagCardinality(db.draw_results[game_code]) >= MIN_PARTICIPANTS
        ELSE db.draw_results[game_code] = EmptyBag

\* A draw has just failed after its writes and was rolled back: the game is
\* Locked, not Drawn and has no record.
C4_Witness ==
    \E game_code \in Codes :
        /\ Last("draw", game_code, "error")
        /\ GameExists(db, game_code)
        /\ GetGameByCode(db, game_code).is_locked
        /\ ~Drawn(db, game_code)
        /\ db.draw_results[game_code] = EmptyBag

\* The next request is handler op, called for game_code by the creator of the
\* game this code names now.
ByCreator(op, game_code) ==
    /\ reply'.op = op
    /\ reply'.code = game_code
    /\ GameExists(db, game_code)
    /\ reply'.user = GetGameByCode(db, game_code).creator_chat_id

Count(game_code) == BagCardinality(db.participants[game_code])

C5_DrawStep ==
    \A game_code \in Codes :
        ByCreator("draw", game_code) =>
            /\ reply'.outcome = "ok" =>
                   /\ GetGameByCode(db, game_code).is_locked
                   /\ ~GetGameByCode(db, game_code).is_drawn
                   /\ Drawn(db', game_code)
            /\ ~GetGameByCode(db, game_code).is_locked =>
                   reply'.outcome = "not_locked"
            /\ GetGameByCode(db, game_code).is_drawn =>
                   reply'.outcome = "already_drawn"
            /\ reply'.outcome # "ok" => db' = db

\* C5: draw by the creator succeeds only on a game that is Locked and not
\* Drawn; on an Open game it answers not-locked, on a Drawn game already-drawn,
\* and a draw that does not succeed leaves flags and assignment records as they
\* were.
C5_DrawOnlyWhenLockedNotDrawn == [][C5_DrawStep]_vars

\* The creator has just asked for a second draw of a Drawn game and was refused.
C5_Witness ==
    \E game_code \in Codes :
        /\ Last("draw", game_code, "already_drawn")
        /\ Drawn(db, game_code)
        /\ reply.user = GetGameByCode(db, game_code).creator_chat_id

C6_LockStep ==
    \A game_code \in Codes :
        ByCreator("lock", game_code) =>
            /\ reply'.outcome = "ok" =>
                   /\ ~GetGameByCode(db, game_code).is_locked
                   /\ Count(game_code) >= MIN_PARTICIPANTS
                   /\ db' = [db EXCEPT !.games[game_code].is_locked = TRUE]
            /\ (/\ ~GetGameByCode(db, game_code).is_locked
                /\ Count(game_code) < MIN_PARTICIPANTS) =>
                   reply'.outcome = "insufficient"
            /\ GetGameByCode(db, game_code).is_locked =>
                   reply'.outcome = "already_locked"
            /\ reply'.outcome # "ok" => db' = db

\* C6: lock by the creator succeeds only on an Open game with at least 3
\* participants, and then sets is_locked and nothing else (the participants
\* stay as they were); with fewer than 3 it answers insufficient-participants,
\* on a Locked game already-locked, and then nothing changes.
C6_LockOnlyWhenOpenWithThree == [][C6_LockStep]_vars

\* The creator has just asked to lock an Open game of two participants and
\* was refused.
C6_Witness ==
    \E game_code \in Codes :
        /\ Last("lock", game_code, "insufficient")
        /\ GameExists(db, game_code)
        /\ reply.user = GetGameByCode(db, game_code).creator_chat_id
        /\ BagCardinality(db.participants[game_code]) = MIN_PARTICIPANTS - 1

\* No name is twice among the participants of one game.
NamesDistinct(s) ==
    \A game_code \in Codes :
        \A name \in BagToSet(s.participants[game_code]) :
            CopiesIn(name, s.participants[game_code]) = 1

C7_JoinStep ==
    \A game_code \in Codes :
        (reply'.op = "join" /\ reply'.code = game_code) =>
            /\ reply'.outcome = "ok" =>
                   /\ GameExists(db, game_code)
                   /\ ~GetGameByCode(db, game_code).is_locked
                   /\ ~BagIn(reply'.name, db.participants[game_code])
                   /\ db' = [db EXCEPT !.participants[game_code] =
                                           @ (+) SetToBag({reply'.name})]
                   /\ reply'.count = Count(game_code) + 1
            /\ ~GameExists(db, game_code) => reply'.outcome = "not_found"
            /\ (/\ GameExists(db, game_code)
                /\ GetGameByCode(db, game_code).is_locked) =>
                   reply'.outcome = "game_locked"
            /\ (/\ GameExists(db, game_code)
                /\ ~GetGameByCode(db, game_code).is_locked
                /\ BagIn(reply'.name, db.participants[game_code])) =>
                   reply'.outcome = "duplicate_name"
            /\ reply'.outcome # "ok" => db' = db

\* C7: join succeeds only when the game exists, is Open and does not have the
\* name; it then adds exactly that one participant and reports the previous
\* count plus one; on a Locked game and on a name already present it fails and
\* adds nothing; the names of one game are pairwise distinct in every state.
C7_JoinAddsOneNewName ==
    NamesDistinct(db) /\ [][C7_JoinStep /\ NamesDistinct(db')]_vars

\* A name already in an Open game has just been refused.
C7_Witness ==
    \E game_code \in Codes :
        /\ Last("join", game_code, "duplicate_name")
        /\ BagIn(reply.name, db.participants[game_code])
        /\ BagCardinality(db.participants[game_code]) >= 2

C8_UnlockStep ==
    \A game_code \in Codes :
        ByCreator("unlock", game_code) =>
            /\ (reply'.outcome = "ok" \/ db' # db) =>
                   /\ GetGameByCode(db, game_code).is_locked
                   /\ ~GetGameByCode(db, game_code).is_drawn
                   /\ db' = [db EXCEPT !.games[game_code].is_locked = FALSE]
                   /\ JoinCheck(GetGameByCode(db', game_code), FALSE) = "ok"
            /\ GetGameByCode(db, game_code).is_drawn =>
                   reply'.outcome = "cannot_unlock_after_draw" /\ db' = db
            /\ ~GetGameByCode(db, game_code).is_locked =>
                   reply'.outcome = "already_open" /\ db' = db

\* A Drawn game that is still there after a step is still Drawn and Locked.
C8_DrawnStays ==
    \A game_code \in Codes :
        (Drawn(db, game_code) /\ GameExists(db', game_code)) =>
            /\ Drawn(db', game_code)
            /\ GetGameByCode(db', game_code).is_locked

\* C8: unlock by the creator takes effect only on a game that is Locked and
\* not Drawn, and makes it Open, so that a join is accepted again; on a Drawn
\* game it answers cannot-unlock-after-draw and on an Open game already-open,
\* changing nothing; a Drawn game stays Drawn and Locked until it is deleted.
C8_UnlockOnlyBeforeDraw == [][C8_UnlockStep /\ C8_DrawnStays]_vars

\* The creator has just unlocked a Locked game: it is Open with its three or
\* more participants.
C8_Witness ==
    \E game_code \in Codes :
        /\ Last("unlock", game_code, "ok")
        /\ GameExists(db, game_code)
        /\ ~GetGameByCode(db, game_code).is_locked
        /\ BagCardinality(db.participants[game_code]) >= MIN_PARTICIPANTS

\* The next request is one of the handlers ops, called for the game this code
\* names now by a user who is not its creator.
ByOther(ops, game_code) ==
    /\ reply'.op \in ops
    /\ reply'.code = game_code
    /\ GameExists(db, game_code)
    /\ reply'.user # GetGameByCode(db, game_code).creator_chat_id

Refused == reply'.outcome = "permission_denied" /\ db' = db

\* C9 as claimed: add participant, lock, unlock, draw, redraw and delete take
\* effect only for the creator; any other caller gets permission-denied and
\* changes nothing (a request the storage or Telegram failed is left aside).
C9_EveryMutationCreatorOnly ==
    [][\A game_code \in Codes :
           (/\ ByOther({"join", "lock", "unlock", "draw", "redraw", "purge",
                        "purge_confirm"}, game_code)
            /\ reply'.outcome # "error") => Refused]_vars

\* C9 as amended: lock, unlock, draw, redraw and delete take effect only for
\* the creator, and any other caller gets permission-denied and changes
\* nothing; add participant is open to every caller and is never answered
\* with permission-denied.
C9_GuardedMutationsCreatorOnly ==
    [][/\ \A game_code \in Codes :
              ByOther({"lock", "unlock", "draw", "redraw", "purge",
                       "purge_confirm"}, game_code) => Refused
       /\ reply'.op = "join" => reply'.outcome # "permission_denied"]_vars

\* A user who is not the creator has just asked to delete a Drawn game and
\* was refused.
C9_Witness ==
    \E game_code \in Codes :
        /\ Last("purge_confirm", game_code, "permission_denied")
        /\ Drawn(db, game_code)
        /\ reply.user # GetGameByCode(db, game_code).creator_chat_id

ExportOps == {"export", "export_text", "export_csv", "export_table"}

C10_ExportStep ==
    \A game_code \in Codes :
        (/\ reply'.op \in ExportOps
         /\ reply'.code = game_code
         /\ GameExists(db, game_code)
         /\ reply'.user = GetGameByCode(db, game_code).creator_chat_id) =>
            /\ ~Drawn(db, game_code) => reply'.outcome = "not_drawn"
            /\ Drawn(db, game_code) =>
                   /\ reply'.outcome = "ok"
                   /\ reply'.op = "export" => reply'.count = Count(game_code)
                   /\ reply'.op # "export" =>
                          /\ Len(reply'.pairs) = Count(game_code)
                          /\ PairSet(reply'.pairs)
                                 = BagToSet(db.draw_results[game_code])
            /\ db' = db

\* C10: export by the creator answers not-drawn-yet unless the game is Drawn;
\* on a Drawn game the command offers the N pairs and each format returns
\* exactly the N pairs the last draw or redraw persisted; no export changes
\* the tables.
C10_ExportOnlyWhenDrawn == [][C10_ExportStep]_vars

\* The engine refuses the participants of the game, whatever the shuffle.
EngineFails(s, game_code) ==
    \A shuffle \in Shuffles(Len(GetParticipants(s, game_code))) :
        PerformDraw(GetParticipants(s, game_code), shuffle).status # "ok"

C11_Step ==
    \A game_code \in Codes :
        (/\ reply'.op \in {"draw", "redraw"}
         /\ reply'.code = game_code
         /\ GameExists(db, game_code)
         /\ reply'.user = GetGameByCode(db, game_code).creator_chat_id
         /\ GetGameByCode(db, game_code).is_locked
         /\ reply'.op = "draw" => ~GetGameByCode(db, game_code).is_drawn
         /\ EngineFails(db, game_code)) =>
            /\ reply'.outcome \in {"insufficient", "draw_error", "error"}
            /\ db' = db

\* C11: when the assignment engine or the verification of its result fails
\* during draw or redraw, nothing of the operation is persisted: the flags and
\* the assignment records of the game are those from before (a redraw leaves
\* the previous assignment in place).
C11_FailedDrawPersistsNothing == [][C11_Step]_vars

\* A redraw of a Drawn game whose participants are gone has just failed: the
\* records of the earlier draw are in place.
C11_Witness ==
    \E game_code \in Codes :
        /\ Last("redraw", game_code, "error")
        /\ Drawn(db, game_code)
        /\ db.participants[game_code] = EmptyBag
        /\ BagCardinality(db.draw_results[game_code]) >= MIN_PARTICIPANTS

C12_RedrawStep ==
    \A game_code \in Codes :
        ByCreator("redraw", game_code) =>
            /\ reply'.outcome \in
                   IF GetGameByCode(db, game_code).is_locked
                   THEN {"ok", "error"} ELSE {"not_locked"}
            /\ reply'.outcome = "ok" =>
                   /\ db'.games = [db.games EXCEPT ![game_code].is_drawn = TRUE]
                   /\ db'.participants = db.participants
                   /\ BagCardinality(db'.draw_results[game_code])
                          = Count(game_code)
                   /\ OneCycleThrough(BagToSet(db'.draw_results[game_code]),
                                      BagToSet(db.participants[game_code]))
            /\ reply'.outcome # "ok" => db' = db

\* C12: redraw by the creator of a Locked game discards the assignment records
\* of the game and stores a fresh assignment, also when the game is Drawn
\* already; afterwards the game has exactly N records (not the old and the new
\* ones together), is_locked is as before and the game is Drawn; on an Open
\* game redraw fails and changes nothing.
C12_RedrawReplacesAssignment == [][C12_RedrawStep]_vars

\* The creator has just redrawn a game of which an export was offered before:
\* it holds one record for each of its participants.
C12_Witness ==
    \E game_code \in Codes :
        /\ Last("redraw", game_code, "ok")
        /\ export_kb = <<game_code, reply.user>>
        /\ Drawn(db, game_code)
        /\ BagCardinality(db.draw_results[game_code]) = MIN_PARTICIPANTS
        /\ BagCardinality(db.participants[game_code]) = MIN_PARTICIPANTS

C13_NewStep ==
    \A game_code \in AllCodes :
        (reply' # reply /\ reply'.op = "new" /\ reply'.code = game_code) =>
            /\ reply'.outcome = "ok"
            /\ ~GameExists(db, game_code)
            /\ GameExists(db', game_code)
            /\ GetGameByCode(db', game_code) =
                   [creator_chat_id |-> reply'.user,
                    is_locked |-> FALSE,
                    is_drawn |-> FALSE,
                    auto_purge_at |-> now + 30]
            /\ db'.participants[game_code] = EmptyBag
            /\ db'.draw_results[game_code] = EmptyBag
            /\ \A other \in DOMAIN db.games :
                   /\ GameExists(db', other)
                   /\ GetGameByCode(db', other) = GetGameByCode(db, other)
            /\ \A other \in AllCodes \ {game_code} :
                   /\ db'.participants[other] = db.participants[other]
                   /\ db'.draw_results[other] = db.draw_results[other]

SweepReturns ==
    /\ reply'.op = "sweep"
    /\ now' = now
    /\ sweep'.pc = "idle"
    /\ sweep.pc = "selected" \/ task = "sleep"

\* The games of s with a non-null expiration that is not later than `at`.
ExpiredAt(s, at) ==
    {c \in DOMAIN s.games :
        /\ GetGameByCode(s, c).auto_purge_at # NoDate
        /\ GetGameByCode(s, c).auto_purge_at <= at}

C14_SweepStep ==
    SweepReturns =>
        /\ \A game_code \in DOMAIN db.games \ ExpiredAt(db, sweep'.at) :
               /\ GameExists(db', game_code)
               /\ GetGameByCode(db', game_code) = GetGameByCode(db, game_code)
               /\ db'.participants[game_code] = db.participants[game_code]
               /\ db'.draw_results[game_code] = db.draw_results[game_code]
        /\ reply'.outcome = "ok" =>
               DOMAIN db'.games = DOMAIN db.games \ ExpiredAt(db, sweep'.at)

C15_NoRecordWithoutGame ==
    \A game_code \in AllCodes :
        ~GameExists(db, game_code) =>
            /\ db.participants[game_code] = EmptyBag
            /\ db.draw_results[game_code] = EmptyBag

\* A sweep has just deleted two games and no game is left.
C15_Witness ==
    /\ reply.op = "sweep" /\ reply.outcome = "ok" /\ reply.count = 2
    /\ DOMAIN db.games = {}

C16_SweepStep ==
    (SweepReturns /\ sweep.pc = "selected" /\ reply'.outcome = "item_error") =>
        /\ Cardinality({c \in sweep.live : GameExists(db', c)})
               <= Cardinality(sweep.rows) - reply'.count
        /\ task' \in {"sleep", "backoff"}

\* C16: in one sweep, a failure while one expired game is deleted does not
\* end the sweep and does not reach the caller: the sweep returns its count,
\* and of the expired games it found only those whose deletion failed are
\* still there when it has ended.
C16_FailedDeleteDoesNotStopSweep == [][C16_SweepStep]_vars

\* A sweep of two expired games has just returned 1 after one deletion failed:
\* one game, expired, is left.
C16_Witness ==
    /\ reply.op = "sweep" /\ reply.outcome = "item_error" /\ reply.count = 1
    /\ sweep.pc = "idle"
    /\ \E game_code \in AllCodes :
           /\ DOMAIN db.games = {game_code}
           /\ GetGameByCode(db, game_code).auto_purge_at <= sweep.at

\* C17: the scheduler loop never ends because of an error: when computing the
\* next scheduled time or a sweep fails, the loop waits the one-hour backoff
\* and begins another cycle, so a failed sweep is followed by a retry after
\* the backoff.
C17_FailedSweepRetriedAfterBackoff ==
    /\ task \in {"sleep", "purge", "backoff"}
    /\ [][/\ task' \in {"sleep", "purge", "backoff"}
          /\ (SweepReturns /\ reply'.outcome = "error") => task' = "backoff"]_vars

\* C18: with a scheduler that keeps running and a clock that goes on, every
\* game is eventually gone from the tables: each game has a non-null
\* expiration from its creation on, and a sweep at or after it deletes the
\* game unless its creator has done so before.
C18_EveryGameEventuallyGone ==
    /\ [](\A game_code \in DOMAIN db.games :
              GetGameByCode(db, game_code).auto_purge_at # NoDate)
    /\ [][(SweepReturns /\ reply'.outcome = "ok") =>
              ExpiredAt(db', sweep'.at) = {}]_vars
    /\ \A game_code \in AllCodes :
           GameExists(db, game_code) ~> ~GameExists(db, game_code)

\* On the last day a sweep has just deleted a game that had not been deleted
\* by its creator.
C18_Witness ==
    /\ reply.op = "sweep" /\ reply.outcome = "ok" /\ reply.count >= 1
    /\ sweep.pc = "idle" /\ sweep.at = MaxDays
    /\ now = MaxDays

\* A request of one of the handlers ops that names a code without a game is
\* answered game-not-found and changes nothing; a game created with a code
\* starts Open and without participants and records.
GoneStaysGone(ops) ==
    \A game_code \in Codes :
        /\ (/\ reply'.op \in ops
            /\ reply'.code = game_code
            /\ ~GameExists(db, game_code)) =>
               reply'.outcome = "not_found" /\ db' = db
        /\ (~GameExists(db, game_code) /\ GameExists(db', game_code)) =>
               /\ reply'.op = "new"
               /\ ~GetGameByCode(db', game_code).is_locked
               /\ ~GetGameByCode(db', game_code).is_drawn
               /\ db'.participants[game_code] = EmptyBag
               /\ db'.draw_results[game_code] = EmptyBag

\* C19: once a game is deleted, its participants and assignment records do
\* not come back: every later join, lock, unlock, draw, redraw, export or
\* delete naming its code reports game-not-found and changes nothing, and a
\* later game with the same code starts Open and empty.
C19_DeletedGameStaysGone ==
    [][GoneStaysGone({"join", "lock", "unlock", "draw", "redraw", "purge",
                      "purge_confirm"} \cup ExportOps)]_vars

\* The sweep that returns in this step returns the number of games it removed.
CountsRemoved ==
    reply'.count = Cardinality(DOMAIN db.games) - Cardinality(DOMAIN db'.games)

\* The sweep that returns in this step began right after a sweep in which
\* nothing failed, at the same time.
SecondSweep ==
    /\ reply.op = "sweep" /\ reply.outcome = "ok"
    /\ sweep.pc = "idle" /\ sweep.at = now

\* C20: a sweep returns exactly the number of games it has removed from the
\* tables, not counting a game it did not remove, such as one that an explicit
\* delete removed in between; a second sweep at the same instant right after
\* it deletes nothing and returns 0.
C20_SweepReturnsRemovedCount ==
    [][SweepReturns =>
           /\ CountsRemoved
           /\ SecondSweep => reply'.count = 0 /\ db' = db]_vars

\* perform_draw has raised or returned for draw_input.
DrawReturned == draw_output.status # "none"

\* perform_draw raised the exception `status` and so returned nothing.
DrawFailedWith(status) ==
    draw_output.status = status /\ draw_output.result = <<>>

\* C21 as stated: perform_draw on an input with fewer than 3 distinct names
\* (an empty list, 1 or 2 names, or 3 or more entries of which fewer than 3
\* are distinct) fails with InsufficientParticipantError and returns nothing.
C21_FewerThanThreeDistinctInsufficient ==
    (DrawReturned /\ Cardinality(ListSet(draw_input)) < MIN_PARTICIPANTS) =>
        DrawFailedWith("insufficient")

\* C21 as amended: perform_draw on an input of fewer than 3 entries fails with
\* InsufficientParticipantError; on 3 or more entries of which fewer than 3
\* are distinct it fails with the DrawError for a repeated name; in both
\* cases it returns nothing.
C21_FewerThanThreeEntriesInsufficient ==
    (DrawReturned /\ Cardinality(ListSet(draw_input)) < MIN_PARTICIPANTS) =>
        IF Len(draw_input) < MIN_PARTICIPANTS
        THEN DrawFailedWith("insufficient")
        ELSE DrawFailedWith("draw_error")

\* Two different names were handed in and refused as too few.
C21_Witness ==
    /\ draw_output.status = "insufficient"
    /\ Len(draw_input) = 2
    /\ draw_input[1] # draw_input[2]

\* C22 as stated: perform_draw on any input in which a name occurs more than
\* once fails, whatever the length of the input, with the DrawError for a
\* repeated name, which is not InsufficientParticipantError, and returns
\* nothing.
C22_RepeatedNameDrawError ==
    (DrawReturned /\ ~Distinct(draw_input)) => DrawFailedWith("draw_error")

\* C22 as amended: perform_draw on an input of 3 or more entries in which a
\* name occurs more than once fails with the DrawError for a repeated name;
\* on fewer than 3 entries with a repeated name it fails with
\* InsufficientParticipantError; in both cases it returns nothing.
C22_RepeatedNameOfThreeDrawError ==
    (DrawReturned /\ ~Distinct(draw_input)) =>
        IF Len(draw_input) >= MIN_PARTICIPANTS
        THEN DrawFailedWith("draw_error")
        ELSE DrawFailedWith("insufficient")

\* Enough different names, one of them twice: refused for the repeat.
C22_Witness ==
    /\ draw_output.status = "draw_error"
    /\ Len(draw_input) = MIN_PARTICIPANTS + 1
    /\ Cardinality(ListSet(draw_input)) = MIN_PARTICIPANTS

\* The dict has an item whose key is its value.
HasSelfPair(d) == \E i \in DOMAIN d : d[i][1] = d[i][2]

\* C23: verify_draw_properties applied to a result perform_draw returned
\* reports no_self_assignment, is_permutation and is_cyclic all true; applied
\* to any mapping with a pair giver = receiver it reports no_self_assignment
\* false.
C23_VerifyAcceptsDrawsRejectsSelfPairs ==
    checks.ran =>
        /\ draw_output.status = "ok" =>
               /\ checks.value.no_self_assignment
               /\ checks.value.is_permutation
               /\ checks.value.is_cyclic
        /\ HasSelfPair(draw_output.result) =>
               ~checks.value.no_self_assignment

\* A dict made by hand was verified: two names give to each other and the
\* third, later in the dict, gives to itself.
C23_Witness ==
    /\ checks.ran
    /\ draw_output.status = "given"
    /\ Len(draw_output.result) = 3
    /\ draw_output.result[1][1] # draw_output.result[1][2]
    /\ draw_output.result[3][1] = draw_output.result[3][2]
    /\ checks.value.is_permutation
    /\ ~checks.value.is_cyclic

\* on_startup runs its sweep in this step.
StartupStep == sched.startup = "pending" /\ sched'.startup = "done"

\* The task runs a sweep in this step.
PeriodicStep == sched'.last # sched.last

\* The hour is a midnight of the wall clock.
Midnight(wall) == wall % HOURS_PER_DAY = 0

\* C24: at the start of the process a sweep runs before the first sweep of
\* the task: it runs in the hour of the start, not at the next midnight, and,
\* when nothing fails it, it deletes every game whose expiration is not later
\* than the time of the start and no other game.
C24_StartupSweepBeforePeriodic ==
    /\ [](sched.startup = "pending" => sched.last = NoTime)
    /\ [][StartupStep =>
              /\ sched.last = NoTime
              /\ sched.wall = sched.cycle /\ sched.wall < sched.wake_at
              /\ reply'.op = "startup"
              /\ reply'.outcome = "ok" =>
                     DOMAIN db'.games = DOMAIN db.games \ ExpiredAt(db, now)]_vars

\* The process started at noon; its startup sweep has deleted one game, and
\* the game that expires the day after is still there.
C24_Witness ==
    /\ sched.startup = "done" /\ sched.last = NoTime
    /\ ~Midnight(sched.wall) /\ sched.wall = sched.cycle
    /\ reply.op = "startup" /\ reply.outcome = "ok" /\ reply.count = 1
    /\ \E game_code \in AllCodes :
           /\ GameExists(db, game_code)
           /\ GetGameByCode(db, game_code).auto_purge_at = now + 1

\* C25: the wait of each turn of the task is the time from the instant the
\* turn begins to the next midnight, more than 0 and at most 24 hours; the
\* task sweeps only when that wait is over; so every sweep of the task falls
\* on a midnight, and on the midnight after the last sweep's when the turn
\* began within a day of it, whatever the hour the process started at.
C25_PeriodicSweepsAtMidnight ==
    /\ [](task = "sleep" =>
             /\ sched.wake_at - sched.cycle > 0
             /\ sched.wake_at - sched.cycle <= HOURS_PER_DAY
             /\ Midnight(sched.wake_at))
    /\ [][PeriodicStep =>
              /\ task = "sleep" /\ sched.wall >= sched.wake_at
              /\ Midnight(sched.wall) /\ sched'.last = sched.wall
              /\ sched.last # NoTime
                     /\ sched.cycle < sched.last + HOURS_PER_DAY =>
                     sched.wall = sched.last + HOURS_PER_DAY]_vars

\* The task has swept at the second midnight after the start and waits for
\* the third.
C25_Witness ==
    /\ task = "sleep" /\ reply.op = "sweep"
    /\ sched.last = 3 * HOURS_PER_DAY
    /\ sched.wall = sched.last
    /\ sched.wake_at = sched.last + HOURS_PER_DAY

\* The games whose row this step removes.
DeletedInStep == DOMAIN db.games \ DOMAIN db'.games

\* C28: with settings.enable_auto_purge false (no task is created) a game is
\* deleted only by a purge its creator has confirmed.
C28_NoAutoPurgeWhenDisabled ==
    [][\A game_code \in DeletedInStep :
           task = "off" =>
               /\ reply'.op = "purge_confirm"
               /\ reply'.code = game_code
               /\ reply'.user = GetGameByCode(db, game_code).creator_chat_id]_vars

\* Every code _generate_code can return is the code of a game.
AllCodesTaken(s) == \A game_code \in AllCodes : GameExists(s, game_code)

\* generate_game_code on the tables as they are, whatever _generate_code
\* returns: a code is a code of no game and the one of the last attempt; no
\* code means that all MAX_GENERATION_ATTEMPTS attempts hit a game.
C26_GenerateBounded ==
    \A first \in AllCodes, second \in AllCodes :
        LET picks == PickRun(first, second)
            code == GenerateGameCode(db, picks, 1)
            attempts == GenerateAttempts(db, picks, 1)
        IN  /\ attempts \in 1..MAX_GENERATION_ATTEMPTS
            /\ code # None =>
                   /\ ~GameExists(db, code)
                   /\ code = picks[attempts]
                   /\ \A a \in 1..(attempts - 1) : GameExists(db, picks[a])
            /\ code = None =>
                   /\ attempts = MAX_GENERATION_ATTEMPTS
                   /\ \A a \in 1..attempts : GameExists(db, picks[a])

C26_NewStep ==
    (reply' # reply /\ reply'.op = "new") =>
        /\ reply'.outcome = "ok" =>
               reply'.code \in AllCodes /\ ~GameExists(db, reply'.code)
        /\ reply'.outcome # "ok" => reply'.code = None /\ db' = db
        /\ AllCodesTaken(db) => reply'.outcome = "error" /\ db' = db

\* C26: generate_game_code returns a code that no game has, after at most 100
\* attempts of one generated code and one lookup each; when all 100 attempts
\* hit a game it raises, cmd_new answers with its error and no game is
\* created.
C26_CodeUniqueWithinHundredAttempts ==
    []C26_GenerateBounded /\ [][C26_NewStep]_vars

\* Both codes are taken and a /new has just failed.
C26_Witness ==
    /\ AllCodesTaken(db)
    /\ Last("new", None, "error")

\* The requests a user sends for a game that exists.
InteractiveOps ==
    {"join", "lock", "unlock", "draw", "redraw", "purge", "purge_confirm",
     "export"} \cup ExportOps

\* The game with this code, if there is one, and its participants and
\* records are after the step what they were before it.
GameUntouched(game_code) ==
    /\ GameExists(db', game_code) = GameExists(db, game_code)
    /\ GameExists(db, game_code) =>
           GetGameByCode(db', game_code) = GetGameByCode(db, game_code)
    /\ db'.participants[game_code] = db.participants[game_code]
    /\ db'.draw_results[game_code] = db.draw_results[game_code]

\* Every step of SpecTwoGames is one request handled, and reply' tells which.
C27_Step ==
    /\ \A other \in AllCodes :
           (reply'.op \in InteractiveOps /\ reply'.code # other) =>
               GameUntouched(other)
    /\ \A game_code \in AllCodes :
           (/\ reply'.op = "join" /\ reply'.code = game_code
            /\ GameExists(db, game_code)
            /\ ~GetGameByCode(db, game_code).is_locked
            /\ ~BagIn(reply'.name, db.participants[game_code])
            /\ reply'.outcome # "error") =>
               /\ reply'.outcome = "ok"
               /\ db'.participants[game_code] =
                      db.participants[game_code] (+) SetToBag({reply'.name})

\* C27: a join, lock, unlock, draw, redraw, export or purge of one game leaves
\* the flags, the participants, the assignment records and the expiration of
\* every other game as they were; a name is taken per game: a name that is
\* not yet in an open game is added by a join whatever games it is in
\* already.
C27_OtherGamesUntouched == [][C27_Step]_vars

\* A name of the drawn game has just joined the other game, too.
C27_Witness ==
    \E game_code \in AllCodes, other \in AllCodes :
        /\ game_code # other
        /\ Last("join", game_code, "ok")
        /\ BagIn(reply.name, db.participants[game_code])
        /\ BagIn(reply.name, db.participants[other])
        /\ Drawn(db, other)

Creator(s, game_code) == GetGameByCode(s, game_code).creator_chat_id

\* The reply of the step carries pairs only as an export format sent to the
\* creator of a game that exists, and they are records of that game.
C29_PairsStep ==
    reply'.pairs # <<>> =>
        /\ reply'.op \in ExportOps \ {"export"}
        /\ GameExists(db, reply'.code)
        /\ reply'.user = Creator(db, reply'.code)
        /\ PairSet(reply'.pairs)
               \subseteq BagToSet(db.draw_results[reply'.code])

\* An export command or format callback of another user is refused: no
\* pairs, no format keyboard, no change of the tables.
C29_RefusalStep ==
    \A game_code \in Codes :
        (/\ reply'.op \in ExportOps
         /\ reply'.code = game_code
         /\ GameExists(db, game_code)
         /\ reply'.user # Creator(db, game_code)) =>
            /\ reply'.outcome = "permission_denied"
            /\ reply'.pairs = <<>>
            /\ export_kb' = export_kb
            /\ db' = db

\* C29: the export command and the three format callbacks refuse every
\* caller but the game's creator, and no reply of join, list, info or draw
\* (nor of any handler but a format callback answering the creator) holds a
\* giver -> receiver pair.
C29_PairsOnlyToCreator ==
    [][/\ C29_PairsStep
       /\ C29_RefusalStep
       /\ reply'.op \in {"join", "list", "info", "draw"} =>
              reply'.pairs = <<>>]_vars

\* Another user has just pressed a format button for a Drawn game and was
\* refused.
C29_Witness ==
    \E game_code \in Codes :
        /\ reply.op \in ExportOps \ {"export"}
        /\ reply.code = game_code
        /\ Drawn(db, game_code)
        /\ reply.user # Creator(db, game_code)
        /\ reply.outcome = "permission_denied"

\* C30: when two /draw requests for one Locked game have both read the game
\* before either commits, at most one of them persists a result: once both
\* are over the game holds either no record or exactly N records, one per
\* giver, forming one cycle through its N participants.
C30_InterleavedDrawsPersistOnce ==
    (\A r \in Requests : requests[r].pc = "idle") =>
        \A game_code \in Codes :
            (/\ GameExists(db, game_code)
             /\ db.draw_results[game_code] # EmptyBag) =>
                /\ BagCardinality(db.draw_results[game_code])
                       = Count(game_code)
                /\ \A p, q \in BagToSet(db.draw_results[game_code]) :
                       p[1] = q[1] => p = q
                /\ \A p \in BagToSet(db.draw_results[game_code]) :
                       CopiesIn(p, db.draw_results[game_code]) = 1
                /\ OneCycleThrough(BagToSet(db.draw_results[game_code]),
                                   BagToSet(db.participants[game_code]))

\* A step adds no participant to a game that is Locked.
C31_Step ==
    \A game_code \in Codes :
        (/\ GameExists(db, game_code)
         /\ GetGameByCode(db, game_code).is_locked
         /\ GameExists(db', game_code)) =>
            db'.participants[game_code] = db.participants[game_code]

\* C31: when a join has checked is_locked before a lock (and a draw) of the
\* same game commits, no participant is added to the game once it is Locked,
\* and a Drawn game has no participant who is missing from the givers of its
\* assignment records.
C31_LockFreezesMembership ==
    /\ [][C31_Step]_vars
    /\ [](\A game_code \in Codes :
             Drawn(db, game_code) =>
                 BagToSet(db.participants[game_code])
                     \subseteq Givers(BagToSet(db.draw_results[game_code])))

\* C32: when an unlock and a draw of one Locked game interleave, one of them
\* fails: no game has is_drawn set, or holds assignment records, while
\* is_locked is false.
C32_NeverDrawnAndUnlocked ==
    \A game_code \in Codes :
        (/\ GameExists(db, game_code)
         /\ ~GetGameByCode(db, game_code).is_locked) =>
            /\ ~GetGameByCode(db, game_code).is_drawn
            /\ db.draw_results[game_code] = EmptyBag

\* A game that is there when the sweep has ended is as it was when the
\* sweep began its deletions.
C33_SweepStep ==
    SweepReturns =>
        \A game_code \in AllCodes :
            GameExists(db', game_code) =>
                /\ GameExists(db, game_code)
                /\ GetGameByCode(db', game_code) = GetGameByCode(db, game_code)
                /\ db'.participants[game_code] = db.participants[game_code]
                /\ db'.draw_results[game_code] = db.draw_results[game_code]

\* C33: when the deletion of an expired game fails part-way in a sweep, after
\* its participant or assignment records were removed and before the game
\* record was, the game, its participants and its assignment records are,
\* once the sweep has ended, as before the sweep: no committed state holds a
\* game stripped of children.
C33_FailedDeletionLeavesGameWhole == [][C33_SweepStep]_vars

\* C34: _validate_draw rejects every candidate that is not a single N-cycle
\* over the participants: what it lets through has N pairs, givers and
\* receivers equal to the participants, no self pair and one cycle, so two
\* disjoint cycles (Ann -> Bo, Bo -> Ann, Cid -> Dee, Dee -> Cid) are refused.
C34_ValidationRejectsNonCycles ==
    draw_output.status = "ok" =>
        /\ Len(draw_output.result) = Len(draw_input)
        /\ OneCycleThrough(PairSet(draw_output.result), ListSet(draw_input))

\* The list sh turned by r places.
Rotate(sh, r) == [i \in DOMAIN sh |-> sh[((i - 1 + r) % Len(sh)) + 1]]

\* The maps perform_draw can return for participants, over all shuffles.
DrawMaps(participants) ==
    {PairSet(PerformDraw(participants, shuffle).result) :
        shuffle \in Shuffles(Len(participants))}

\* The permutations of names that are one cycle through all of them.
CycleMaps(names) ==
    {m \in {{<<n, f[n]>> : n \in names} : f \in [names -> names]} :
        OneCycleThrough(m, names)}

RECURSIVE Factorial(_)
Factorial(n) == IF n <= 1 THEN 1 ELSE n * Factorial(n - 1)

\* C35: perform_draw maps each name to its successor in the shuffled order,
\* the last to the first (shuffle [Bo, Cid, Ann] gives Bo -> Cid, Cid -> Ann,
\* Ann -> Bo); over all shuffles of N distinct names its results are exactly
\* the single-N-cycle permutations, (N-1)! maps, the rotations of a shuffle
\* give one map, and no map of several disjoint cycles is returned.  What
\* is said of all shuffles of a list is evaluated once for the list, in the
\* state the shuffle that moves nothing leads to.
C35_SuccessorInShuffledOrder ==
    draw_output.status = "ok" =>
        LET n == Len(draw_input) IN
        /\ \A i \in 1..n :
               draw_output.result[i][2] = draw_output.result[(i % n) + 1][1]
        /\ OneCycleThrough(PairSet(draw_output.result), ListSet(draw_input))
        /\ (\A i \in 1..n : draw_output.result[i][1] = draw_input[i]) =>
               /\ DrawMaps(draw_input) = CycleMaps(ListSet(draw_input))
               /\ Cardinality(DrawMaps(draw_input)) = Factorial(n - 1)
               /\ \A shuffle \in Shuffles(n), r \in 0..(n - 1) :
                      PairSet(PerformDraw(draw_input,
                                          Rotate(shuffle, r)).result)
                          = PairSet(PerformDraw(draw_input, shuffle).result)
        /\ draw_input = <<"Ann", "Bo", "Cid">> =>
               PerformDraw(draw_input, <<2, 3, 1>>).result
                   = <<<<"Bo", "Cid">>, <<"Cid", "Ann">>, <<"Ann", "Bo">>>>

\* [Ann, Bo, Cid] was drawn and the shuffle left [Bo, Cid, Ann].
C35_Witness ==
    /\ draw_input = <<"Ann", "Bo", "Cid">>
    /\ draw_output.status = "ok"
    /\ draw_output.result
           = <<<<"Bo", "Cid">>, <<"Cid", "Ann">>, <<"Ann", "Bo">>>>

\* The name k steps of giver -> receiver after the first giver of d; None
\* once a step leaves the givers.
RECURSIVE Follow(_, _)
Follow(d, k) ==
    IF k = 0 THEN d[1][1]
    ELSE LET before == Follow(d, k - 1) IN
         IF before \in DictKeys(d) THEN DictGet(d, before) ELSE None

\* Following d from its first giver visits every giver once and is back at
\* the start after Len(d) steps.
VisitsAllAndReturns(d) ==
    /\ {Follow(d, k) : k \in 0..(Len(d) - 1)} = DictKeys(d)
    /\ Follow(d, Len(d)) = d[1][1]

\* C36: verify_draw_properties returns its three booleans for any mapping
\* and leaves the mapping as it was; for a non-empty mapping is_cyclic is
\* true exactly when the chain from the first giver visits every giver once
\* and returns to the start, and is_cyclic true comes with is_permutation
\* true.
C36_VerifyReadOnlyAndCyclicExact ==
    /\ [](checks.ran =>
             /\ checks.value.no_self_assignment \in BOOLEAN
             /\ checks.value.is_permutation \in BOOLEAN
             /\ checks.value.is_cyclic \in BOOLEAN
             /\ draw_output.result # <<>> =>
                    checks.value.is_cyclic
                        = VisitsAllAndReturns(draw_output.result)
             /\ checks.value.is_cyclic => checks.value.is_permutation)
    /\ [][checks'.ran # checks.ran => draw_output' = draw_output]_vars

\* A dict made by hand was verified: its walk from the first giver is back
\* at the start after two of its three givers, and is_cyclic is false.
C36_Witness ==
    /\ checks.ran
    /\ draw_output.status = "given"
    /\ Len(draw_output.result) = 3
    /\ Follow(draw_output.result, 2) = draw_output.result[1][1]
    /\ checks.value.no_self_assignment
    /\ ~checks.value.is_cyclic
    /\ ~checks.value.is_permutation

\* C37: in every reachable state a Locked game has at least 3 participants,
\* and no draw or redraw of a Locked game answers insufficient-participants.
C37_LockedGameHasThree ==
    /\ [](\A game_code \in AllCodes :
             (/\ GameExists(db, game_code)
              /\ GetGameByCode(db, game_code).is_locked) =>
                 BagCardinality(db.participants[game_code])
                     >= MIN_PARTICIPANTS)
    /\ [][\A game_code \in AllCodes :
             (/\ reply' # reply
              /\ reply'.op \in {"draw", "redraw"}
              /\ reply'.code = game_code
              /\ GameExists(db, game_code)
              /\ GetGameByCode(db, game_code).is_locked) =>
                 reply'.outcome # "insufficient"]_vars

\* C38: a message whose text is one of the ten slash commands is handled by
\* the handler of that command, and handle_unknown_message handles only a
\* message that the filters of no command, menu-button or input-state
\* handler pass for.
CommandHandler ==
    [head \in {"/new", "/join", "/list", "/info", "/lock", "/unlock", "/draw",
              "/redraw", "/export", "/purge"} |->
        CASE head = "/new" -> "cmd_new"
          [] head = "/join" -> "cmd_join"
          [] head = "/list" -> "cmd_list"
          [] head = "/info" -> "cmd_info"
          [] head = "/lock" -> "cmd_lock"
          [] head = "/unlock" -> "cmd_unlock"
          [] head = "/draw" -> "cmd_draw"
          [] head = "/redraw" -> "cmd_redraw"
          [] head = "/export" -> "cmd_export"
          [] OTHER -> "cmd_purge"]

AllHandlers ==
    UNION {{Routers[k][i] : i \in 1..Len(Routers[k])} : k \in 1..Len(Routers)}

C38_Step ==
    router'.text.head # "callback" =>
        /\ router'.text.head \in DOMAIN CommandHandler =>
               router'.handled_by = CommandHandler[router'.text.head]
        /\ router'.handled_by = "handle_unknown_message" =>
               \A h \in AllHandlers :
                   h.kind = "any"
                       \/ ~Matches(h, router'.text,
                                   router.fsm[router'.user].state)

C38_CommandsReachTheirHandlers == [][C38_Step]_vars

\* C39: with the requests of the users alone, a game is deleted only by the
\* purge confirmation of its creator; the confirmation of the creator that no
\* error interrupts deletes the game with its participants and assignment
\* records whether the game is Open, Locked or Drawn; the purge request and
\* the cancel action leave the games, the participants and the assignment
\* records as they were.
C39_Step ==
    /\ \A game_code \in DOMAIN db.games \ DOMAIN db'.games :
           /\ reply'.op = "purge_confirm"
           /\ reply'.code = game_code
           /\ reply'.user = Creator(db, game_code)
           /\ reply'.outcome = "ok"
    /\ \A game_code \in DOMAIN db.games :
           /\ reply'.op = "purge_confirm"
           /\ reply'.code = game_code
           /\ reply'.user = Creator(db, game_code)
           /\ reply'.outcome = "ok"
           => /\ ~GameExists(db', game_code)
              /\ GetParticipants(db', game_code) = <<>>
              /\ GetDrawResults(db', game_code) = <<>>
    /\ reply'.op \in {"purge", "purge_cancel"} => db' = db

C40_Step ==
    \A r \in Requests :
        /\ requests[r].pc = "answered"
        /\ requests'[r].pc = "idle"
        => db' = requests[r].session

C40_SuccessReplyMeansCommitted == [][C40_Step]_vars

====
